---- MODULE Spec2Model ----
(***************************************************************************)
(* A model of two pieces of the wasm-tools text toolchain:                 *)
(*                                                                         *)
(*  - the expression parser of crates/wast/src/core/expr.rs, which turns   *)
(*    a token stream of flat and folded instructions into a flat list of   *)
(*    instructions with the help of an explicit stack of levels;           *)
(*  - the entry points of crates/wat/src/lib.rs, which pass a binary       *)
(*    module through untouched and hand text to the text parser.           *)
(*                                                                         *)
(* Tokens are strings.  "(" and ")" are the parentheses, "@bh" is the      *)
(* annotation token @metadata.code.branch_hint, "s0" "s1" "s2" "s01" and   *)
(* "s" are string literals (see StringBytes), "0" "1" "64" "-1" and the    *)
(* like are integers,                                                      *)
(* every other token is a keyword.  "EOF" marks the end of the input.      *)
(* Error messages are the source's, with ' where the source has a         *)
(* backquote.                                                              *)
(***************************************************************************)
EXTENDS Integers, Sequences, FiniteSets, TLC

VARIABLES
    free,          \* TRUE: the input is any token stream, chosen as it is read
    script,        \* the whole input when it is fixed in advance (free = FALSE)
    toks,          \* the tokens consumed so far
    raw_instrs,    \* ExpressionParser.raw_instrs
    stack,         \* ExpressionParser.stack
    branch_hints,  \* ExpressionParser.branch_hints
    spans,         \* ExpressionParser.spans: [some, v]
    status,        \* "parsing", "ok" (parse returned Ok), "err", "encoded", "decoded"
    errmsg,        \* the message of the error parse returned
    bytes,         \* the encoding of the instructions of the parsed expression
    decoded,       \* the operators read back from bytes
    input,         \* the bytes handed to an entry point of the wat crate
    result         \* what the entry point returned

pvars == <<free, script, toks, raw_instrs, stack, branch_hints, spans, status, errmsg,
           bytes, decoded>>

wvars == <<input, result>>

vars == <<pvars, wvars>>

(***************************************************************************)
(* Bounds of the model.                                                    *)
(***************************************************************************)
\* the longest input, in tokens, when the input is free
MaxTokens == 10

\* the most instruction keywords a free input holds
MaxKeywords == 2

\* the most branch hint annotations a free input holds
MaxHints == 1

\* the longest input, in bytes, of the entry points of the wat crate
MaxBytes == 5

(***************************************************************************)
(* Tokens and instructions.                                                *)
(***************************************************************************)
\* the keywords Instruction::parse accepts (the rows of the table kept here)
InstrKeywords ==
    {"block", "if", "else", "loop", "end", "unreachable", "nop", "br_if",
     "i32.const", "i32.add", "try_table", "try", "data.drop"}

\* the opcode bytes of a row of the instruction table
Opcode(op) ==
    CASE op = "block" -> <<2>>
      [] op = "if" -> <<4>>
      [] op = "else" -> <<5>>
      [] op = "loop" -> <<3>>
      [] op = "end" -> <<11>>
      [] op = "unreachable" -> <<0>>
      [] op = "nop" -> <<1>>
      [] op = "br_if" -> <<13>>
      [] op = "i32.const" -> <<65>>
      [] op = "i32.add" -> <<106>>
      [] op = "try_table" -> <<31>>
      [] op = "try" -> <<6>>
      [] op = "data.drop" -> <<252, 9>>

\* keywords whose instruction takes an index: BrIf(Index), DataDrop(Index)
IndexKeywords == {"br_if", "data.drop"}

\* keywords whose instruction takes one integer immediate (an i32 or an index)
ImmKeywords == {"i32.const"} \cup IndexKeywords

\* keywords whose instruction takes a block type
BlockKeywords == {"block", "loop", "if", "try"}

\* keywords that are no instruction
OtherKeywords == {"then"}

Integers1 == {"0", "1", "2", "64", "128", "-1", "-65"}

IntValue(t) ==
    CASE t = "0" -> 0 [] t = "1" -> 1 [] t = "2" -> 2 [] t = "64" -> 64
      [] t = "128" -> 128 [] t = "-1" -> -1 [] t = "-65" -> -65

Strings == {"s0", "s1", "s2", "s01", "s"}

\* the bytes of a string literal after unescaping
StringBytes(t) ==
    CASE t = "s0" -> <<0>>
      [] t = "s1" -> <<1>>
      [] t = "s2" -> <<2>>
      [] t = "s01" -> <<0, 1>>
      [] OTHER -> <<>>

AllTokens == {"(", ")", "@bh"} \cup InstrKeywords \cup OtherKeywords
                \cup Integers1 \cup Strings

\* the tokens a free input is made of
FreeTokens == {"(", ")", "@bh", "then", "else", "end", "if", "block", "nop",
               "s1", "s2"}

Instr(op, imm) == [op |-> op, imm |-> imm]

End == Instr("end", <<>>)

Else == Instr("else", <<>>)

NoInstr == Instr("", <<>>)

(***************************************************************************)
(* Levels of the stack.                                                    *)
(***************************************************************************)
\* Level::EndWith(instr, span); span 0 is None
EndWith(i, s) == [kind |-> "EndWith", instr |-> i, span |-> s, st |-> ""]

\* Level::If(If::Clause(instr, span)), Level::If(If::Then), Level::If(If::Else)
IfLevel(st, i, s) == [kind |-> "If", instr |-> i, span |-> s, st |-> st]

IfArm == [kind |-> "IfArm", instr |-> NoInstr, span |-> 0, st |-> ""]

BranchHintLevel == [kind |-> "BranchHint", instr |-> NoInstr, span |-> 0, st |-> ""]

Top == stack[Len(stack)]

Pop(s) == SubSeq(s, 1, Len(s) - 1)

(***************************************************************************)
(* The input.                                                              *)
(***************************************************************************)
\* the k-th token after the consumed ones when the input is fixed
At(k) == IF Len(toks) + k <= Len(script) THEN script[Len(toks) + k] ELSE "EOF"

\* the tokens a free input may hold k places after the consumed ones
TokAt(k) == IF Len(toks) + k <= MaxTokens THEN FreeTokens \cup {"EOF"} ELSE {"EOF"}

\* the number of tokens of the sequence t that are in the set S
Count(t, S) == Cardinality({i \in 1..Len(t) : t[i] \in S})

\* The next three tokens, as far as one iteration of the parse loop looks at
\* them; a place it does not look at is filled with "EOF".
Upcoming ==
    IF ~free THEN {<<At(1), At(2), At(3)>>}
    ELSE LET two == {"@bh"} \cup ImmKeywords
             all == {<<a, "EOF", "EOF">> : a \in TokAt(1) \ ({"("} \cup ImmKeywords)}
                    \cup (ImmKeywords \cap TokAt(1)) \X TokAt(2) \X {"EOF"}
                    \cup ({"("} \cap TokAt(1)) \X (TokAt(2) \ two) \X {"EOF"}
                    \cup ({"("} \cap TokAt(1)) \X (TokAt(2) \cap two) \X TokAt(3)
             nk == Count(toks, InstrKeywords)
             nh == Count(toks, {"@bh"})
         IN {la \in all : /\ nk + Count(la, InstrKeywords) <= MaxKeywords
                          /\ nh + Count(la, {"@bh"}) <= MaxHints}

\* Parser::is_empty: nothing is left, or the next token closes the enclosing form
is_empty(a) == a \in {"EOF", ")"}

(***************************************************************************)
(* Instruction::parse: a keyword of the table, then its immediates.        *)
(* The result holds the instruction and n, the number of tokens it took.   *)
(***************************************************************************)
ParseInstruction(kw, nxt) ==
    IF kw \notin InstrKeywords \cup OtherKeywords
    THEN [err |-> "expected an instruction", instr |-> NoInstr, n |-> 0]
    ELSE IF kw \notin InstrKeywords
    THEN [err |-> "unknown operator or unexpected token", instr |-> NoInstr, n |-> 0]
    ELSE IF kw \in ImmKeywords
    THEN IF nxt \in Integers1 /\ (kw \in IndexKeywords => IntValue(nxt) >= 0)
         THEN [err |-> "", instr |-> Instr(kw, <<IntValue(nxt)>>), n |-> 2]
         ELSE [err |-> "expected an integer", instr |-> NoInstr, n |-> 0]
    ELSE [err |-> "", instr |-> Instr(kw, <<>>), n |-> 1]

(***************************************************************************)
(* The parser's fields as one record p, and the methods that change them.  *)
(* p.err is the error a method returned ("" for none), p.n the number of   *)
(* tokens the iteration has consumed.                                      *)
(***************************************************************************)
Self ==
    [raw_instrs |-> raw_instrs, stack |-> stack, branch_hints |-> branch_hints,
     spans |-> spans, err |-> "", n |-> 0]

Fail(p, msg) == [p EXCEPT !.err = msg]

Take(p, k) == [p EXCEPT !.n = @ + k]

\* push_instr appending the instruction without its span
push_instr_InstrOnly(p, instr, span) == [p EXCEPT !.raw_instrs = Append(@, instr)]

\* ExpressionParser::push_instr
push_instr(p, instr, span) ==
    [p EXCEPT !.raw_instrs = Append(@, instr),
              !.spans = IF @.some THEN [some |-> TRUE, v |-> Append(@.v, span)] ELSE @]

push_level(p, level) == [p EXCEPT !.stack = Append(@, level)]

set_top(p, level) == [p EXCEPT !.stack[Len(p.stack)] = level]

\* paren reporting a ")" whether or not a level is open
paren_RightAlways(p, a) ==
    IF a = "(" THEN "Left"
    ELSE IF a = ")" THEN "Right"
    ELSE "None"

\* ExpressionParser::paren, which consumes the parenthesis it reports
paren(p, a) ==
    IF a = "(" THEN "Left"
    ELSE IF p.stack = <<>> THEN "None"
    ELSE IF a = ")" THEN "Right"
    ELSE "None"

\* handle_if_lparen dropping the if it holds when (then is seen
handle_if_lparen_DropsIf(p, b, pos) ==
    IF p.stack = <<>> \/ p.stack[Len(p.stack)].kind # "If"
    THEN [p |-> p, handled |-> FALSE]
    ELSE LET i == p.stack[Len(p.stack)] IN
         CASE i.st = "Clause" ->
                IF b # "then"
                THEN [p |-> p, handled |-> FALSE]
                ELSE [p |-> push_level(set_top(Take(p, 1), IfLevel("Then", NoInstr, 0)),
                                       IfArm),
                      handled |-> TRUE]
           [] i.st = "Then" ->
                IF b # "else"
                THEN [p |-> Fail(p, "expected keyword 'else'"), handled |-> TRUE]
                ELSE [p |-> push_level(
                                push_instr(set_top(Take(p, 1), IfLevel("Else", NoInstr, 0)),
                                           Else, pos + 1),
                                IfArm),
                      handled |-> TRUE]
           [] OTHER ->
                [p |-> Fail(p, "unexpected token: too many payloads inside of '(if)'"),
                 handled |-> TRUE]

\* handle_if_lparen taking a second (then for the else arm
handle_if_lparen_ThenAgain(p, b, pos) ==
    IF p.stack = <<>> \/ p.stack[Len(p.stack)].kind # "If"
    THEN [p |-> p, handled |-> FALSE]
    ELSE LET i == p.stack[Len(p.stack)] IN
         CASE i.st = "Clause" ->
                IF b # "then"
                THEN [p |-> p, handled |-> FALSE]
                ELSE [p |-> push_level(
                                push_instr(set_top(Take(p, 1), IfLevel("Then", NoInstr, 0)),
                                           i.instr, i.span),
                                IfArm),
                      handled |-> TRUE]
           [] i.st = "Then" ->
                IF b \notin {"then", "else"}
                THEN [p |-> Fail(p, "expected keyword 'else'"), handled |-> TRUE]
                ELSE [p |-> push_level(
                                push_instr(set_top(Take(p, 1), IfLevel("Else", NoInstr, 0)),
                                           Else, pos + 1),
                                IfArm),
                      handled |-> TRUE]
           [] OTHER ->
                [p |-> Fail(p, "unexpected token: too many payloads inside of '(if)'"),
                 handled |-> TRUE]

\* handle_if_lparen leaving a "(" after the else arm to the rest of the loop
handle_if_lparen_ElseOpen(p, b, pos) ==
    IF p.stack = <<>> \/ p.stack[Len(p.stack)].kind # "If"
    THEN [p |-> p, handled |-> FALSE]
    ELSE LET i == p.stack[Len(p.stack)] IN
         CASE i.st = "Clause" ->
                IF b # "then"
                THEN [p |-> p, handled |-> FALSE]
                ELSE [p |-> push_level(
                                push_instr(set_top(Take(p, 1), IfLevel("Then", NoInstr, 0)),
                                           i.instr, i.span),
                                IfArm),
                      handled |-> TRUE]
           [] i.st = "Then" ->
                IF b # "else"
                THEN [p |-> Fail(p, "expected keyword 'else'"), handled |-> TRUE]
                ELSE [p |-> push_level(
                                push_instr(set_top(Take(p, 1), IfLevel("Else", NoInstr, 0)),
                                           Else, pos + 1),
                                IfArm),
                      handled |-> TRUE]
           [] OTHER -> [p |-> p, handled |-> FALSE]

\* handle_if_lparen opening the else arm without emitting Else
handle_if_lparen_NoElse(p, b, pos) ==
    IF p.stack = <<>> \/ p.stack[Len(p.stack)].kind # "If"
    THEN [p |-> p, handled |-> FALSE]
    ELSE LET i == p.stack[Len(p.stack)] IN
         CASE i.st = "Clause" ->
                IF b # "then"
                THEN [p |-> p, handled |-> FALSE]
                ELSE [p |-> push_level(
                                push_instr(set_top(Take(p, 1), IfLevel("Then", NoInstr, 0)),
                                           i.instr, i.span),
                                IfArm),
                      handled |-> TRUE]
           [] i.st = "Then" ->
                IF b # "else"
                THEN [p |-> Fail(p, "expected keyword 'else'"), handled |-> TRUE]
                ELSE [p |-> push_level(set_top(Take(p, 1), IfLevel("Else", NoInstr, 0)),
                                       IfArm),
                      handled |-> TRUE]
           [] OTHER ->
                [p |-> Fail(p, "unexpected token: too many payloads inside of '(if)'"),
                 handled |-> TRUE]

\* ExpressionParser::handle_if_lparen, called after a "(" at position pos was
\* consumed; b is the token after it.  handled is the boolean it returns.
handle_if_lparen(p, b, pos) ==
    IF p.stack = <<>> \/ p.stack[Len(p.stack)].kind # "If"
    THEN [p |-> p, handled |-> FALSE]
    ELSE LET i == p.stack[Len(p.stack)] IN
         CASE i.st = "Clause" ->
                IF b # "then"
                THEN [p |-> p, handled |-> FALSE]
                ELSE [p |-> push_level(
                                push_instr(set_top(Take(p, 1), IfLevel("Then", NoInstr, 0)),
                                           i.instr, i.span),
                                IfArm),
                      handled |-> TRUE]
           [] i.st = "Then" ->
                IF b # "else"
                THEN [p |-> Fail(p, "expected keyword 'else'"), handled |-> TRUE]
                ELSE [p |-> push_level(
                                push_instr(set_top(Take(p, 1), IfLevel("Else", NoInstr, 0)),
                                           Else, pos + 1),
                                IfArm),
                      handled |-> TRUE]
           [] OTHER ->
                [p |-> Fail(p, "unexpected token: too many payloads inside of '(if)'"),
                 handled |-> TRUE]

\* parse_branch_hint reading the first byte of the payload only
parse_branch_hint_FirstByte(p, c) ==
    IF c \notin Strings THEN Fail(p, "expected a string")
    ELSE LET hint == StringBytes(c) IN
         IF hint = <<>> \/ hint[1] \notin {0, 1}
         THEN Fail(p, "invalid value for branch hint")
         ELSE [Take(p, 2) EXCEPT
                 !.branch_hints = Append(@, [instr_index |-> Len(p.raw_instrs),
                                             value |-> hint[1]])]

\* parse_branch_hint recording the index of the instruction before the hint
parse_branch_hint_Preceding(p, c) ==
    IF c \notin Strings THEN Fail(p, "expected a string")
    ELSE LET hint == StringBytes(c) IN
         IF hint \notin {<<0>>, <<1>>} THEN Fail(p, "invalid value for branch hint")
         ELSE [Take(p, 2) EXCEPT
                 !.branch_hints = Append(@, [instr_index |-> IF p.raw_instrs = <<>> THEN 0
                                                             ELSE Len(p.raw_instrs) - 1,
                                             value |-> hint[1]])]

\* ExpressionParser::parse_branch_hint; b is the annotation, c the token after it
parse_branch_hint(p, c) ==
    IF c \notin Strings THEN Fail(p, "expected a string")
    ELSE LET hint == StringBytes(c) IN
         IF hint \notin {<<0>>, <<1>>} THEN Fail(p, "invalid value for branch hint")
         ELSE [Take(p, 2) EXCEPT
                 !.branch_hints = Append(@, [instr_index |-> Len(p.raw_instrs),
                                             value |-> hint[1]])]

\* arm_none leaving the parser as it is when no token is left
arm_none_EofOk(p, la, pos) ==
    LET r == ParseInstruction(la[1], la[2]) IN
    IF la[1] = "EOF" THEN p
    ELSE IF r.err # "" THEN Fail(p, r.err)
    ELSE push_instr(Take(p, r.n), r.instr, pos + 1)

\* Paren::None: the next instruction is parsed and appended
arm_none(p, la, pos) ==
    LET r == ParseInstruction(la[1], la[2]) IN
    IF r.err # "" THEN Fail(p, r.err)
    ELSE push_instr(Take(p, r.n), r.instr, pos + 1)

\* arm_left pushing the instruction of a folded form when the form is opened
arm_left_OperatorFirst(p0, la, pos) ==
    LET p == Take(p0, 1)
        h == handle_if_lparen(p, la[2], pos + 1)
    IN
    IF h.p.err # "" \/ h.handled THEN h.p
    ELSE IF la[2] = "@bh"
    THEN LET q == parse_branch_hint(p, la[3]) IN
         IF q.err # "" THEN q ELSE push_level(q, BranchHintLevel)
    ELSE LET r == ParseInstruction(la[2], la[3])
             span == pos + 2
         IN
         IF r.err # "" THEN Fail(p, r.err)
         ELSE IF r.instr.op \in {"block", "loop", "try_table"}
         THEN push_level(push_instr(Take(p, r.n), r.instr, span), EndWith(End, 0))
         ELSE IF r.instr.op = "if"
         THEN push_level(Take(p, r.n), IfLevel("Clause", r.instr, span))
         ELSE push_level(push_instr(Take(p, r.n), r.instr, span), IfArm)

\* arm_left keeping a folded block, loop or try_table for its ")" as it does
\* a plain instruction
arm_left_BlockAtClose(p0, la, pos) ==
    LET p == Take(p0, 1)
        h == handle_if_lparen(p, la[2], pos + 1)
    IN
    IF h.p.err # "" \/ h.handled THEN h.p
    ELSE IF la[2] = "@bh"
    THEN LET q == parse_branch_hint(p, la[3]) IN
         IF q.err # "" THEN q ELSE push_level(q, BranchHintLevel)
    ELSE LET r == ParseInstruction(la[2], la[3])
             span == pos + 2
         IN
         IF r.err # "" THEN Fail(p, r.err)
         ELSE IF r.instr.op = "if"
         THEN push_level(Take(p, r.n), IfLevel("Clause", r.instr, span))
         ELSE push_level(Take(p, r.n), EndWith(r.instr, span))

\* Paren::Left: the "(" at position pos + 1 was consumed
arm_left(p0, la, pos) ==
    LET p == Take(p0, 1)
        h == handle_if_lparen(p, la[2], pos + 1)
    IN
    IF h.p.err # "" \/ h.handled THEN h.p
    ELSE IF la[2] = "@bh"
    THEN LET q == parse_branch_hint(p, la[3]) IN
         IF q.err # "" THEN q ELSE push_level(q, BranchHintLevel)
    ELSE LET r == ParseInstruction(la[2], la[3])
             span == pos + 2
         IN
         IF r.err # "" THEN Fail(p, r.err)
         ELSE IF r.instr.op \in {"block", "loop", "try_table"}
         THEN push_level(push_instr(Take(p, r.n), r.instr, span), EndWith(End, 0))
         ELSE IF r.instr.op = "if"
         THEN push_level(Take(p, r.n), IfLevel("Clause", r.instr, span))
         ELSE push_level(Take(p, r.n), EndWith(r.instr, span))

\* arm_right with an End for the ")" that closes an arm of a folded if
arm_right_ArmEnd(p0, pos) ==
    LET level == p0.stack[Len(p0.stack)]
        p == [Take(p0, 1) EXCEPT !.stack = Pop(@)]
        span == pos + 1
    IN
    CASE level.kind = "EndWith" ->
            push_instr(p, level.instr, IF level.span = 0 THEN span ELSE level.span)
      [] level.kind = "IfArm" -> push_instr(p, End, span)
      [] level.kind = "BranchHint" -> p
      [] level.kind = "If" /\ level.st = "Clause" ->
            Fail(p0, "previous 'if' had no 'then'")
      [] OTHER -> push_instr(p, End, span)

\* arm_right closing a folded if that has no (then as an if with no arms
arm_right_NoThenOk(p0, pos) ==
    LET level == p0.stack[Len(p0.stack)]
        p == [Take(p0, 1) EXCEPT !.stack = Pop(@)]
        span == pos + 1
    IN
    CASE level.kind = "EndWith" ->
            push_instr(p, level.instr, IF level.span = 0 THEN span ELSE level.span)
      [] level.kind \in {"IfArm", "BranchHint"} -> p
      [] level.kind = "If" /\ level.st = "Clause" ->
            push_instr(push_instr(p, level.instr, level.span), End, span)
      [] OTHER -> push_instr(p, End, span)

\* arm_right with no End for the ")" that closes a folded if
arm_right_NoIfEnd(p0, pos) ==
    LET level == p0.stack[Len(p0.stack)]
        p == [Take(p0, 1) EXCEPT !.stack = Pop(@)]
        span == pos + 1
    IN
    CASE level.kind = "EndWith" ->
            push_instr(p, level.instr, IF level.span = 0 THEN span ELSE level.span)
      [] level.kind \in {"IfArm", "BranchHint"} -> p
      [] level.kind = "If" /\ level.st = "Clause" ->
            Fail(p0, "previous 'if' had no 'then'")
      [] OTHER -> p

\* Paren::Right(span): the ")" at position pos + 1 was consumed
arm_right(p0, pos) ==
    LET level == p0.stack[Len(p0.stack)]
        p == [Take(p0, 1) EXCEPT !.stack = Pop(@)]
        span == pos + 1
    IN
    CASE level.kind = "EndWith" ->
            push_instr(p, level.instr, IF level.span = 0 THEN span ELSE level.span)
      [] level.kind \in {"IfArm", "BranchHint"} -> p
      [] level.kind = "If" /\ level.st = "Clause" ->
            Fail(p0, "previous 'if' had no 'then'")
      [] OTHER -> push_instr(p, End, span)

\* one iteration of the loop of ExpressionParser::parse
iteration(p, la, pos) ==
    IF p.stack # <<>> /\ p.stack[Len(p.stack)].kind = "If"
       /\ ~is_empty(la[1]) /\ la[1] # "("
    THEN Fail(p, "expected '('")
    ELSE CASE paren(p, la[1]) = "None" -> arm_none(p, la, pos)
           [] paren(p, la[1]) = "Left" -> arm_left(p, la, pos)
           [] OTHER -> arm_right(p, pos)

(***************************************************************************)
(* Actions.                                                                *)
(***************************************************************************)
\* the fields after an iteration that left p, having read the tokens la
Commit(p, la) ==
    IF p.err # ""
    THEN /\ status' = "err"
         /\ errmsg' = p.err
         /\ UNCHANGED <<toks, raw_instrs, stack, branch_hints, spans>>
    ELSE /\ toks' = toks \o SubSeq(la, 1, p.n)
         /\ raw_instrs' = p.raw_instrs
         /\ stack' = p.stack
         /\ branch_hints' = p.branch_hints
         /\ spans' = p.spans
         /\ UNCHANGED <<status, errmsg>>

\* the loop condition of ExpressionParser::parse
LoopRuns(a) == ~is_empty(a) \/ stack # <<>>

\* an iteration of the loop that takes the arm Paren::None
ParseNone ==
    /\ status = "parsing"
    /\ \E la \in Upcoming :
          /\ LoopRuns(la[1])
          /\ paren(Self, la[1]) = "None"
          /\ Commit(iteration(Self, la, Len(toks)), la)
    /\ UNCHANGED <<free, script, bytes, decoded, wvars>>

\* an iteration of the loop that takes the arm Paren::Left
ParseLeft ==
    /\ status = "parsing"
    /\ \E la \in Upcoming :
          /\ LoopRuns(la[1])
          /\ paren(Self, la[1]) = "Left"
          /\ Commit(iteration(Self, la, Len(toks)), la)
    /\ UNCHANGED <<free, script, bytes, decoded, wvars>>

\* an iteration of the loop that takes the arm Paren::Right
ParseRight ==
    /\ status = "parsing"
    /\ \E la \in Upcoming :
          /\ LoopRuns(la[1])
          /\ paren(Self, la[1]) = "Right"
          /\ Commit(iteration(Self, la, Len(toks)), la)
    /\ UNCHANGED <<free, script, bytes, decoded, wvars>>

\* Finish with an End appended to the instructions
Finish_AppendsEnd ==
    /\ status = "parsing"
    /\ \E la \in Upcoming : ~LoopRuns(la[1])
    /\ status' = "ok"
    /\ raw_instrs' = Append(raw_instrs, End)
    /\ UNCHANGED <<free, script, toks, stack, branch_hints, spans, errmsg,
                   bytes, decoded, wvars>>

\* the loop ends and ExpressionParser::parse returns Ok
Finish ==
    /\ status = "parsing"
    /\ \E la \in Upcoming : ~LoopRuns(la[1])
    /\ status' = "ok"
    /\ UNCHANGED <<free, script, toks, raw_instrs, stack, branch_hints, spans, errmsg,
                   bytes, decoded, wvars>>

(***************************************************************************)
(* The binary form of instructions.                                        *)
(***************************************************************************)
RECURSIVE uleb128(_)
\* unsigned LEB128 of n >= 0, in the fewest bytes
uleb128(n) == IF n < 128 THEN <<n>> ELSE <<(n % 128) + 128>> \o uleb128(n \div 128)

RECURSIVE sleb128(_)
\* signed LEB128 of n, in the fewest bytes that keep the sign bit
sleb128(n) ==
    LET byte == n % 128
        rest == (n - byte) \div 128
    IN IF (rest = 0 /\ byte < 64) \/ (rest = -1 /\ byte >= 64)
       THEN <<byte>>
       ELSE <<byte + 128>> \o sleb128(rest)

\* the encoding of the immediates of an instruction
EncodeImmediates(instr) ==
    CASE instr.op = "i32.const" -> sleb128(instr.imm[1])
      [] instr.op \in IndexKeywords -> uleb128(instr.imm[1])
      [] instr.op \in BlockKeywords -> <<64>>
      [] instr.op = "try_table" -> <<64, 0>>
      [] OTHER -> <<>>

\* EncodeInstruction with the immediates before the bytes of the table
EncodeInstruction_ImmFirst(instr) == EncodeImmediates(instr) \o Opcode(instr.op)

\* impl Encode for Instruction: the bytes of the table, then the immediates
EncodeInstruction(instr) == Opcode(instr.op) \o EncodeImmediates(instr)

RECURSIVE EncodeInstrs(_)
\* the instructions of an expression, one after the other
EncodeInstrs(is) ==
    IF is = <<>> THEN <<>> ELSE EncodeInstruction(Head(is)) \o EncodeInstrs(Tail(is))

\* an operator that cannot be read
BadOperator == [instr |-> Instr("", <<>>), next |-> 0]

RECURSIVE read_var_u32(_, _, _)
\* unsigned LEB128 at position pos of bs, of at most left bytes: [val, next]
read_var_u32(bs, pos, left) ==
    IF pos > Len(bs) \/ left = 0 THEN [val |-> -1, next |-> 0]
    ELSE IF bs[pos] < 128 THEN [val |-> bs[pos], next |-> pos + 1]
    ELSE LET r == read_var_u32(bs, pos + 1, left - 1) IN
         IF r.next = 0 THEN r
         ELSE [val |-> (bs[pos] - 128) + 128 * r.val, next |-> r.next]

RECURSIVE read_var_i32(_, _, _)
\* signed LEB128 at position pos of bs, of at most left bytes: [val, next]
read_var_i32(bs, pos, left) ==
    IF pos > Len(bs) \/ left = 0 THEN [val |-> 0, next |-> 0]
    ELSE IF bs[pos] < 128
    THEN [val |-> IF bs[pos] >= 64 THEN bs[pos] - 128 ELSE bs[pos], next |-> pos + 1]
    ELSE LET r == read_var_i32(bs, pos + 1, left - 1) IN
         IF r.next = 0 THEN r
         ELSE [val |-> (bs[pos] - 128) + 128 * r.val, next |-> r.next]

\* the prefix bytes, after which the opcode is a LEB128 u32
Prefixes == {251, 252, 253, 254}

\* the operator reader: opcode, look-up in the table, immediates
read_operator(bs, pos) ==
    LET prefixed == bs[pos] \in Prefixes
        sub == IF prefixed THEN read_var_u32(bs, pos + 1, 5) ELSE [val |-> 0, next |-> pos + 1]
        code == IF prefixed THEN <<bs[pos], sub.val>> ELSE <<bs[pos]>>
        ops == {op \in InstrKeywords : Opcode(op) = code}
    IN
    IF sub.next = 0 \/ ops = {} THEN BadOperator
    ELSE LET op == CHOOSE o \in ops : TRUE
             at == sub.next
         IN
         CASE op = "i32.const" ->
                LET r == read_var_i32(bs, at, 5) IN
                IF r.next = 0 THEN BadOperator
                ELSE [instr |-> Instr(op, <<r.val>>), next |-> r.next]
           [] op \in IndexKeywords ->
                LET r == read_var_u32(bs, at, 5) IN
                IF r.next = 0 THEN BadOperator
                ELSE [instr |-> Instr(op, <<r.val>>), next |-> r.next]
           [] op \in BlockKeywords ->
                IF at <= Len(bs) /\ bs[at] = 64
                THEN [instr |-> Instr(op, <<>>), next |-> at + 1]
                ELSE BadOperator
           [] op = "try_table" ->
                IF at + 1 <= Len(bs) /\ bs[at] = 64 /\ bs[at + 1] = 0
                THEN [instr |-> Instr(op, <<>>), next |-> at + 2]
                ELSE BadOperator
           [] OTHER -> [instr |-> Instr(op, <<>>), next |-> at]

RECURSIVE read_operators(_, _)
\* the operators of bs from position pos on; a bad one ends the list
read_operators(bs, pos) ==
    IF pos > Len(bs) THEN <<>>
    ELSE LET r == read_operator(bs, pos) IN
         IF r.next = 0 THEN <<r.instr>>
         ELSE <<r.instr>> \o read_operators(bs, r.next)

\* the instructions of the parsed expression are encoded
EncodeBody ==
    /\ status = "ok"
    /\ status' = "encoded"
    /\ bytes' = EncodeInstrs(raw_instrs)
    /\ UNCHANGED <<free, script, toks, raw_instrs, stack, branch_hints, spans, errmsg,
                   decoded, wvars>>

\* the encoded instructions are read back
DecodeBody ==
    /\ status = "encoded"
    /\ status' = "decoded"
    /\ decoded' = read_operators(bytes, 1)
    /\ UNCHANGED <<free, script, toks, raw_instrs, stack, branch_hints, spans, errmsg,
                   bytes, wvars>>

(***************************************************************************)
(* The wat crate: parse_bytes and parse_str.                               *)
(***************************************************************************)
\* b"\0asm"
Magic == <<0, 97, 115, 109>>

\* b"\0asm\x01\0\0\0": the magic and version 1
Header == Magic \o <<1, 0, 0, 0>>

\* slice::starts_with
starts_with(bs, prefix) ==
    Len(bs) >= Len(prefix) /\ SubSeq(bs, 1, Len(prefix)) = prefix

\* a continuation byte of UTF-8
Cont(b) == b >= 128 /\ b <= 191

RECURSIVE ValidUtf8From(_, _)
\* bs is well-formed UTF-8 from position i on
ValidUtf8From(bs, i) ==
    IF i > Len(bs) THEN TRUE
    ELSE LET b == bs[i]
             c(k) == IF i + k <= Len(bs) THEN bs[i + k] ELSE 0
         IN
         CASE b < 128 -> ValidUtf8From(bs, i + 1)
           [] b >= 194 /\ b <= 223 -> Cont(c(1)) /\ ValidUtf8From(bs, i + 2)
           [] b = 224 -> c(1) >= 160 /\ c(1) <= 191 /\ Cont(c(2)) /\ ValidUtf8From(bs, i + 3)
           [] b = 237 -> c(1) >= 128 /\ c(1) <= 159 /\ Cont(c(2)) /\ ValidUtf8From(bs, i + 3)
           [] b >= 225 /\ b <= 239 /\ b # 237 ->
                Cont(c(1)) /\ Cont(c(2)) /\ ValidUtf8From(bs, i + 3)
           [] b = 240 ->
                c(1) >= 144 /\ c(1) <= 191 /\ Cont(c(2)) /\ Cont(c(3))
                /\ ValidUtf8From(bs, i + 4)
           [] b >= 241 /\ b <= 243 ->
                Cont(c(1)) /\ Cont(c(2)) /\ Cont(c(3)) /\ ValidUtf8From(bs, i + 4)
           [] b = 244 ->
                c(1) >= 128 /\ c(1) <= 143 /\ Cont(c(2)) /\ Cont(c(3))
                /\ ValidUtf8From(bs, i + 4)
           [] OTHER -> FALSE

\* str::from_utf8(bytes).is_ok()
from_utf8(bs) == ValidUtf8From(bs, 1)

\* no path: Option<&Path> is None
NoPath == ""

\* Cow::Borrowed: the slice of the input of len bytes from offset off
Borrowed(off, len) == [cow |-> "Borrowed", off |-> off, len |-> len, data |-> <<>>]

\* Cow::Owned, or a Vec<u8>
Owned(data) == [cow |-> "Owned", off |-> 0, len |-> 0, data |-> data]

NoValue == [cow |-> "", off |-> 0, len |-> 0, data |-> <<>>]

NoError == [kind |-> "", msg |-> "", file |-> NoPath]

\* ErrorKind::Custom { msg, file }
Custom(msg, file) == [kind |-> "Custom", msg |-> msg, file |-> file]

\* ErrorKind::Wast(err), as Error::cvt makes it: the path is set on err
Wast(msg, file) == [kind |-> "Wast", msg |-> msg, file |-> file]

\* A Result, with what was done on the way to it: lexed is TRUE when the
\* text parser was invoked, utf8 when the bytes were checked to be UTF-8.
Ok(v, utf8, lexed) ==
    [ok |-> TRUE, val |-> v, err |-> NoError, utf8 |-> utf8, lexed |-> lexed]

Err(e, utf8, lexed) ==
    [ok |-> FALSE, val |-> NoValue, err |-> e, utf8 |-> utf8, lexed |-> lexed]

\* the characters of an identifier or keyword among the bytes of the model
IdChars == {97, 100, 101, 108, 109, 111, 115, 117}

Whitespace == {32, 10}

\* the tokens of a text are the bytes they are made of
LParen == <<40>>

RParen == <<41>>

\* the keyword module
KwModule == <<109, 111, 100, 117, 108, 101>>

\* what the lexer yields at a character that starts no token
LexError == <<-1>>

RECURSIVE Lex(_, _, _)
\* Lexer: the tokens of the text bs from position i on, cur being the
\* keyword read so far; a character of no token ends the list with LexError
Lex(bs, i, cur) ==
    LET flush == IF cur = <<>> THEN <<>> ELSE <<cur>> IN
    IF i > Len(bs) THEN flush
    ELSE CASE bs[i] \in IdChars -> Lex(bs, i + 1, Append(cur, bs[i]))
           [] bs[i] \in {40, 41} -> flush \o <<<<bs[i]>>>> \o Lex(bs, i + 1, <<>>)
           [] bs[i] \in Whitespace -> flush \o Lex(bs, i + 1, <<>>)
           [] OTHER -> flush \o <<LexError>>

\* Parsing a Wat and encoding it.  The model has no module field, so the
\* only module there is is the empty one, (module).
ParseAndEncode(ts) ==
    IF LexError \in {ts[k] : k \in 1..Len(ts)}
    THEN [ok |-> FALSE, msg |-> "unexpected character", data |-> <<>>]
    ELSE IF ts = <<>>
    THEN [ok |-> FALSE, msg |-> "expected at least one module field", data |-> <<>>]
    ELSE IF ts = <<LParen, KwModule, RParen>>
    THEN [ok |-> TRUE, msg |-> "", data |-> Header]
    ELSE IF ts[1] = LParen
    THEN [ok |-> FALSE, msg |-> "expected valid module field", data |-> <<>>]
    ELSE [ok |-> FALSE, msg |-> "expected '('", data |-> <<>>]

\* _parse_str returning the text it parsed instead of its encoding
_parse_str_NoEncode(path, wat, utf8) ==
    LET r == ParseAndEncode(Lex(wat, 1, <<>>)) IN
    IF r.ok THEN Ok(Owned(wat), utf8, TRUE)
    ELSE Err(Wast(r.msg, path), utf8, TRUE)

\* Parser::_parse_str
_parse_str(path, wat, utf8) ==
    LET r == ParseAndEncode(Lex(wat, 1, <<>>)) IN
    IF r.ok THEN Ok(Owned(r.data), utf8, TRUE)
    ELSE Err(Wast(r.msg, path), utf8, TRUE)

\* parse_bytes checking for UTF-8 before it looks for the magic
Parser_parse_bytes_Utf8First(path, bs) ==
    IF ~from_utf8(bs) THEN Err(Custom("input bytes aren't valid utf-8", path), TRUE, FALSE)
    ELSE IF starts_with(bs, Magic) THEN Ok(Borrowed(0, Len(bs)), TRUE, FALSE)
    ELSE _parse_str(path, bs, TRUE)

\* parse_bytes handing bytes that are not UTF-8 to the text parser
Parser_parse_bytes_Lossy(path, bs) ==
    IF starts_with(bs, Magic) THEN Ok(Borrowed(0, Len(bs)), FALSE, FALSE)
    ELSE _parse_str(path, bs, TRUE)

\* parse_bytes passing through the bytes after the magic only
Parser_parse_bytes_PastMagic(path, bs) ==
    IF starts_with(bs, Magic) THEN Ok(Borrowed(4, Len(bs) - 4), FALSE, FALSE)
    ELSE IF from_utf8(bs) THEN _parse_str(path, bs, TRUE)
    ELSE Err(Custom("input bytes aren't valid utf-8", path), TRUE, FALSE)

\* Parser::parse_bytes
Parser_parse_bytes(path, bs) ==
    IF starts_with(bs, Magic) THEN Ok(Borrowed(0, Len(bs)), FALSE, FALSE)
    ELSE IF from_utf8(bs) THEN _parse_str(path, bs, TRUE)
    ELSE Err(Custom("input bytes aren't valid utf-8", path), TRUE, FALSE)

\* wat::parse_bytes
parse_bytes(bs) == Parser_parse_bytes(NoPath, bs)

\* wat::parse_str, on a string: bytes that are UTF-8
parse_str(wat) == _parse_str(NoPath, wat, FALSE)

\* impl Display for Error, as the list of the pieces written
Display(e) ==
    CASE e.kind = "Custom" ->
            IF e.file # NoPath THEN <<"failed to parse '", e.file, "': ", e.msg>>
            ELSE <<e.msg>>
      [] e.kind = "Io" ->
            IF e.file # NoPath THEN <<"failed to read from '", e.file, "'">>
            ELSE <<e.msg>>
      [] OTHER -> <<e.msg, e.file>>

\* the bytes a returned value holds
ValueBytes(v) == IF v.cow = "Borrowed" THEN SubSeq(input, v.off + 1, v.off + v.len) ELSE v.data

\* the bytes of the exhaustive inputs
ByteAlphabet == {0, 97, 115, 109, 255, 195, 169}

\* "(module)", "module", " (module)\n", "()", "(module", "(modul)"
NamedInputs ==
    {<<40>> \o KwModule \o <<41>>, KwModule, <<32, 40>> \o KwModule \o <<41, 10>>,
     <<40, 41>>, <<40>> \o KwModule, <<40, 109, 111, 100, 117, 108, 41>>,
     Header, Header \o <<99>>}

Inputs == UNION {[1..n -> ByteAlphabet] : n \in 0..MaxBytes} \cup NamedInputs

Paths == {NoPath, "foo"}

NoResult ==
    [api |-> "", path |-> NoPath, ok |-> FALSE, val |-> NoValue, err |-> NoError,
     utf8 |-> FALSE, lexed |-> FALSE]

\* what an entry point returned, with the entry point and the path given
Returned(api, path, r) ==
    [api |-> api, path |-> path, ok |-> r.ok, val |-> r.val, err |-> r.err,
     utf8 |-> r.utf8, lexed |-> r.lexed]

\* a call of wat::parse_bytes
CallParseBytes ==
    /\ result = NoResult
    /\ result' = Returned("parse_bytes", NoPath, parse_bytes(input))
    /\ UNCHANGED <<input, pvars>>

\* a call of Parser::parse_bytes with a path
CallParserParseBytes ==
    /\ result = NoResult
    /\ \E path \in Paths :
          result' = Returned("Parser::parse_bytes", path, Parser_parse_bytes(path, input))
    /\ UNCHANGED <<input, pvars>>

\* a call of wat::parse_str; a str is UTF-8
CallParseStr ==
    /\ result = NoResult
    /\ from_utf8(input)
    /\ result' = Returned("parse_str", NoPath, parse_str(input))
    /\ UNCHANGED <<input, pvars>>

None == [some |-> FALSE, v |-> <<>>]

Some(v) == [some |-> TRUE, v |-> v]

(***************************************************************************)
(* Inputs fixed in advance: the function bodies of the scenarios of the    *)
(* specification and of the documentation, and a few malformed ones.       *)
(***************************************************************************)
\* (if (i32.const 1) (then nop) (else unreachable))
IfThenElseBody ==
    <<"(", "if", "(", "i32.const", "1", ")", "(", "then", "nop", ")",
      "(", "else", "unreachable", ")", ")">>

\* (@metadata.code.branch_hint "\01") (if (i32.const 0) (then))
HintedIfBody ==
    <<"(", "@bh", "s1", ")", "(", "if", "(", "i32.const", "0", ")",
      "(", "then", ")", ")">>

\* i32.const 0 (@metadata.code.branch_hint "\00") br_if 1
HintedBrIfBody == <<"i32.const", "0", "(", "@bh", "s0", ")", "br_if", "1">>

\* (@metadata.code.branch_hint "\01") nop
HintedNopBody == <<"(", "@bh", "s1", ")", "nop">>

\* (i32.add (i32.const 1) (i32.const 2))
FoldedAddBody ==
    <<"(", "i32.add", "(", "i32.const", "1", ")", "(", "i32.const", "2", ")", ")">>

\* (block (loop (try_table nop)))
BlocksBody == <<"(", "block", "(", "loop", "(", "try_table", "nop", ")", ")", ")">>

\* block nop
OpenBlockBody == <<"block", "nop">>

\* (if (then else) (else))
ElseInThenBody == <<"(", "if", "(", "then", "else", ")", "(", "else", ")", ")">>

\* (try nop) data.drop 128
FoldedTryBody == <<"(", "try", "nop", ")", "data.drop", "128">>

\* i32.const 64 i32.const -1 i32.const -65 i32.add br_if 2
ConstsBody ==
    <<"i32.const", "64", "i32.const", "-1", "i32.const", "-65", "i32.add", "br_if", "2">>

\* (if (i32.const 0) (then) (else) (nop))
TooManyBody ==
    <<"(", "if", "(", "i32.const", "0", ")", "(", "then", ")", "(", "else", ")",
      "(", "nop", ")", ")">>

\* (if (then) (then))
TwoThenBody == <<"(", "if", "(", "then", ")", "(", "then", ")", ")">>

\* (@metadata.code.branch_hint "\00\01")
LongHintBody == <<"(", "@bh", "s01", ")">>

\* (if (i32.const 0))
NoThenBody == <<"(", "if", "(", "i32.const", "0", ")", ")">>

\* (@metadata.code.branch_hint "")
EmptyHintBody == <<"(", "@bh", "s", ")">>

\* (@metadata.code.branch_hint "\02") nop
OtherHintBody == <<"(", "@bh", "s2", ")", "nop">>

\* (block nop with no closing parenthesis
UnclosedBody == <<"(", "block", "nop">>

Scripts ==
    {<<>>, IfThenElseBody, HintedIfBody, HintedBrIfBody, HintedNopBody, FoldedAddBody,
     BlocksBody, OpenBlockBody, ElseInThenBody, FoldedTryBody, ConstsBody, TooManyBody, TwoThenBody,
     LongHintBody, NoThenBody, EmptyHintBody, OtherHintBody, UnclosedBody}

\* ExpressionParser::new, on any input of at most MaxTokens tokens or on one
\* of the inputs above
Init ==
    /\ \/ free = TRUE /\ script = <<>>
       \/ free = FALSE /\ script \in Scripts
    /\ toks = <<>>
    /\ raw_instrs = <<>>
    /\ stack = <<>>
    /\ branch_hints = <<>>
    /\ spans \in {None, Some(<<>>)}
    /\ status = "parsing"
    /\ errmsg = ""
    /\ bytes = <<>>
    /\ decoded = <<>>
    /\ input = <<>>
    /\ result = NoResult

Next == ParseNone \/ ParseLeft \/ ParseRight \/ Finish \/ EncodeBody \/ DecodeBody

Spec == Init /\ [][Next]_vars

\* the loop of ExpressionParser::parse goes on as long as its condition holds
FairSpec ==
    /\ Spec
    /\ WF_vars(ParseNone) /\ WF_vars(ParseLeft) /\ WF_vars(ParseRight)
    /\ WF_vars(Finish)

\* the wat crate is given any input of at most MaxBytes bytes, or a named one
InitWat ==
    /\ free = FALSE
    /\ script = <<>>
    /\ toks = <<>>
    /\ raw_instrs = <<>>
    /\ stack = <<>>
    /\ branch_hints = <<>>
    /\ spans = None
    /\ status = "parsing"
    /\ errmsg = ""
    /\ bytes = <<>>
    /\ decoded = <<>>
    /\ input \in Inputs
    /\ result = NoResult

NextWat == CallParseBytes \/ CallParserParseBytes \/ CallParseStr

SpecWat == InitWat /\ [][NextWat]_vars

(***************************************************************************)
(* Instructions with immediates of their own: memory accesses (MemArg),    *)
(* select (SelectTypes), table.init and memory.init.  They are parsed from *)
(* flat inputs by the same loop, one instruction an iteration.             *)
(***************************************************************************)
\* the most (result ...) clauses of a select
MaxClauses == 2

\* the most types of one (result ...) clause
MaxTypes == 2

\* the default alignment of the memory accesses: MemArg<4>, MemArg<8>
DefaultAlign(kw) == IF kw = "i32.load" THEN 4 ELSE 8

LoadKeywords == {"i32.load", "i64.load"}

ArgInstrKeywords == LoadKeywords \cup {"select", "table.init", "memory.init"}

\* the keywords offset=N and align=N, well formed or not
FieldTokens ==
    {"offset=0", "offset=8", "offset=", "offset",
     "align=0", "align=1", "align=2", "align=3", "align=4", "align=6", "align=8",
     "align=16", "align=0x10", "align=", "align=x", "alignment=4"}

ValTypes == {"i32", "f64"}

\* the tokens the lexer gives as keywords
Keywords == ArgInstrKeywords \cup FieldTokens \cup ValTypes \cup {"result", "nop"}

\* the tokens that are an index: a u32 or an identifier
IndexTokens == {"0", "1", "2", "$a", "$b"}

\* Index::Num and Index::Id
IndexNum(n) == [num |-> n, id |-> ""]

IndexId(t) == [num |-> 0, id |-> t]

\* Index::parse on a token that is an index
Index(t) == IF t \in {"$a", "$b"} THEN IndexId(t) ELSE IndexNum(IntValue(t))

OffsetName == <<"o", "f", "f", "s", "e", "t">>

AlignName == <<"a", "l", "i", "g", "n">>

\* the characters of a keyword
Chars(t) ==
    CASE t = "offset=0" -> OffsetName \o <<"=", "0">>
      [] t = "offset=8" -> OffsetName \o <<"=", "8">>
      [] t = "offset=" -> OffsetName \o <<"=">>
      [] t = "offset" -> OffsetName
      [] t = "align=0" -> AlignName \o <<"=", "0">>
      [] t = "align=1" -> AlignName \o <<"=", "1">>
      [] t = "align=2" -> AlignName \o <<"=", "2">>
      [] t = "align=3" -> AlignName \o <<"=", "3">>
      [] t = "align=4" -> AlignName \o <<"=", "4">>
      [] t = "align=6" -> AlignName \o <<"=", "6">>
      [] t = "align=8" -> AlignName \o <<"=", "8">>
      [] t = "align=16" -> AlignName \o <<"=", "1", "6">>
      [] t = "align=0x10" -> AlignName \o <<"=", "0", "x", "1", "0">>
      [] t = "align=" -> AlignName \o <<"=">>
      [] t = "align=x" -> AlignName \o <<"=", "x">>
      [] t = "alignment=4" -> AlignName \o <<"m", "e", "n", "t", "=", "4">>
      [] t = "i32.load" -> <<"i", "3", "2", ".", "l", "o", "a", "d">>
      [] t = "i64.load" -> <<"i", "6", "4", ".", "l", "o", "a", "d">>
      [] t = "select" -> <<"s", "e", "l", "e", "c", "t">>
      [] t = "table.init" -> <<"t", "a", "b", "l", "e", ".", "i", "n", "i", "t">>
      [] t = "memory.init" -> <<"m", "e", "m", "o", "r", "y", ".", "i", "n", "i", "t">>
      [] t = "i32" -> <<"i", "3", "2">>
      [] t = "f64" -> <<"f", "6", "4">>
      [] t = "result" -> <<"r", "e", "s", "u", "l", "t">>
      [] t = "nop" -> <<"n", "o", "p">>

DecDigits == {"0", "1", "2", "3", "4", "5", "6", "7", "8", "9"}

HexDigits == DecDigits \cup {"a", "b", "c", "d", "e", "f"}

DigitValue(c) ==
    CASE c = "0" -> 0 [] c = "1" -> 1 [] c = "2" -> 2 [] c = "3" -> 3 [] c = "4" -> 4
      [] c = "5" -> 5 [] c = "6" -> 6 [] c = "7" -> 7 [] c = "8" -> 8 [] c = "9" -> 9
      [] c = "a" -> 10 [] c = "b" -> 11 [] c = "c" -> 12 [] c = "d" -> 13
      [] c = "e" -> 14 [] c = "f" -> 15

RECURSIVE from_str_radix(_, _)
\* u64::from_str_radix on digits of the base; the numerals of the model are
\* far below 2^64, so the conversion does not fail
from_str_radix(cs, base) ==
    IF cs = <<>> THEN 0
    ELSE from_str_radix(SubSeq(cs, 1, Len(cs) - 1), base) * base + DigitValue(cs[Len(cs)])

\* the text after "=" lexed as one integer token: its digits and its base,
\* or none when the text is no integer
LexInteger(cs) ==
    IF /\ Len(cs) > 2 /\ cs[1] = "0" /\ cs[2] = "x"
       /\ \A i \in 3..Len(cs) : cs[i] \in HexDigits
    THEN [ok |-> TRUE, s |-> SubSeq(cs, 3, Len(cs)), base |-> 16]
    ELSE IF cs # <<>> /\ \A i \in 1..Len(cs) : cs[i] \in DecDigits
    THEN [ok |-> TRUE, s |-> cs, base |-> 10]
    ELSE [ok |-> FALSE, s |-> <<>>, base |-> 10]

\* what parse_field returns when the token is not its field
NoField == [err |-> "", some |-> FALSE, n |-> 0]

\* parse_field, from the lexing of the text after "=" on (every number of
\* FieldTokens fits a u64, so u64::from_str_radix does not fail)
field_number(int) ==
    IF int.ok
    THEN [err |-> "", some |-> TRUE, n |-> from_str_radix(int.s, int.base)]
    ELSE [err |-> "expected u64 integer constant", some |-> FALSE, n |-> 0]

\* parse_field, from the text kw after the name on
field_value(kw) ==
    IF ~starts_with(kw, <<"=">>) THEN NoField
    ELSE field_number(LexInteger(SubSeq(kw, 2, Len(kw))))

\* parse_field on a keyword of the characters cs
field_of(name, cs) ==
    IF ~starts_with(cs, name) THEN NoField
    ELSE field_value(SubSeq(cs, Len(name) + 1, Len(cs)))

\* parse_field of MemArg::parse on the token t: the number of name=N if t is
\* that keyword, nothing (and t is not taken) if it is another token
parse_field(name, t) ==
    IF t \notin Keywords THEN NoField ELSE field_of(name, Chars(t))

RECURSIVE is_power_of_two(_)
\* u64::is_power_of_two
is_power_of_two(n) ==
    IF n <= 0 THEN FALSE
    ELSE IF n = 1 THEN TRUE
    ELSE n % 2 = 0 /\ is_power_of_two(n \div 2)

\* the result of a parser of immediates: an error, or the immediate v and
\* the number n of tokens taken
ArgErr(msg) == [err |-> msg, v |-> <<>>, n |-> 0]

ArgOk(v, n) == [err |-> "", v |-> <<v>>, n |-> n]

\* the end of MemArg::parse with an alignment of 0 taken for "none given"
MemArg_align_ZeroDefault(k, n, memory, offset, default_align, al) ==
    IF al.err # "" THEN ArgErr(al.err)
    ELSE IF al.some /\ al.n # 0 /\ ~is_power_of_two(al.n)
    THEN ArgErr("alignment must be a power of two")
    ELSE ArgOk([offset |-> offset,
                align |-> IF al.some /\ al.n # 0 THEN al.n ELSE default_align,
                memory |-> memory],
               IF al.some THEN n + 1 ELSE n)

\* The end of MemArg::parse: al is what parse_field("align") returned, n the
\* number of tokens taken before it.
MemArg_align(k, n, memory, offset, default_align, al) ==
    IF al.err # "" THEN ArgErr(al.err)
    ELSE IF al.some /\ ~is_power_of_two(al.n)
    THEN ArgErr("alignment must be a power of two")
    ELSE ArgOk([offset |-> offset,
                align |-> IF al.some THEN al.n ELSE default_align,
                memory |-> memory],
               IF al.some THEN n + 1 ELSE n)

\* MemArg::parse after the memory index: off is what parse_field("offset")
\* returned on the k-th token
MemArg_offset(k, n, memory, default_align, off) ==
    IF off.err # "" THEN ArgErr(off.err)
    ELSE IF off.some
    THEN MemArg_align(k + 1, n + 1, memory, off.n, default_align,
                      parse_field(AlignName, At(k + 1)))
    ELSE MemArg_align(k, n, memory, 0, default_align, parse_field(AlignName, At(k)))

\* MemArg::parse reading align=N before offset=N
MemArg_parse_AlignFirst(k, default_align) ==
    LET hasmem == At(k) \in IndexTokens
        memory == IF hasmem THEN Index(At(k)) ELSE IndexNum(0)
        k1 == IF hasmem THEN k + 1 ELSE k
        al == parse_field(AlignName, At(k1))
        k2 == IF al.some THEN k1 + 1 ELSE k1
        off == parse_field(OffsetName, At(k2))
        k3 == IF off.some THEN k2 + 1 ELSE k2
    IN
    IF al.err # "" THEN ArgErr(al.err)
    ELSE IF al.some /\ ~is_power_of_two(al.n)
    THEN ArgErr("alignment must be a power of two")
    ELSE IF off.err # "" THEN ArgErr(off.err)
    ELSE ArgOk([offset |-> IF off.some THEN off.n ELSE 0,
                align |-> IF al.some THEN al.n ELSE default_align,
                memory |-> memory], k3 - k)

\* MemArg::parse on the tokens from the k-th after the consumed ones: an
\* optional memory index, then offset=N, then align=N
MemArg_parse(k, default_align) ==
    IF At(k) \in IndexTokens
    THEN MemArg_offset(k + 1, 1, Index(At(k)), default_align,
                       parse_field(OffsetName, At(k + 1)))
    ELSE MemArg_offset(k, 0, IndexNum(0), default_align, parse_field(OffsetName, At(k)))

RECURSIVE ClauseTypes(_, _)
\* the inner loop of SelectTypes::parse: value types up to the end of the
\* clause, from the k-th token on; k is where the loop stopped
ClauseTypes(k, list) ==
    IF is_empty(At(k)) THEN [err |-> "", tys |-> list, k |-> k]
    ELSE IF At(k) \notin ValTypes THEN [err |-> "expected a value type", tys |-> list, k |-> k]
    ELSE ClauseTypes(k + 1, Append(list, At(k)))

RECURSIVE SelectTypes_parse_LastClause(_, _, _, _)
\* SelectTypes::parse keeping the types of the last clause only
SelectTypes_parse_LastClause(k0, k, found, list) ==
    IF At(k) # "EOF" /\ At(k + 1) = "result"
    THEN IF At(k) # "(" THEN ArgErr("expected '('")
         ELSE LET r == ClauseTypes(k + 2, <<>>) IN
              IF r.err # "" THEN ArgErr(r.err)
              ELSE IF At(r.k) # ")" THEN ArgErr("expected ')'")
              ELSE SelectTypes_parse_LastClause(k0, r.k + 1, TRUE, r.tys)
    ELSE ArgOk([tys |-> IF found THEN Some(list) ELSE None], k - k0)

RECURSIVE SelectTypes_parse(_, _, _, _)
\* the end of parser.parens for one clause: r is what the inner loop gave
SelectTypes_clause(k0, r) ==
    IF r.err # "" THEN ArgErr(r.err)
    ELSE IF At(r.k) # ")" THEN ArgErr("expected ')'")
    ELSE SelectTypes_parse(k0, r.k + 1, TRUE, r.tys)

\* impl Parse for SelectTypes, from the k0-th token on: k is the cursor of
\* the outer loop, found and list its variables
SelectTypes_parse(k0, k, found, list) ==
    IF At(k) # "EOF" /\ At(k + 1) = "result"
    THEN IF At(k) # "(" THEN ArgErr("expected '('")
         ELSE SelectTypes_clause(k0, ClauseTypes(k + 2, list))
    ELSE ArgOk([tys |-> IF found THEN Some(list) ELSE None], k - k0)

\* the two indices of table.init and memory.init with the segment first
SegmentInit_parse_SegmentFirst(k) ==
    IF At(k) # "EOF" /\ At(k + 1) \in IndexTokens
    THEN IF At(k) \notin IndexTokens THEN ArgErr("expected an index")
         ELSE ArgOk([target |-> Index(At(k + 1)), segment |-> Index(At(k))], 2)
    ELSE IF At(k) \notin IndexTokens THEN ArgErr("expected an index")
    ELSE ArgOk([target |-> IndexNum(0), segment |-> Index(At(k))], 1)

\* impl Parse for TableInit and impl Parse for MemoryInit: target is the
\* table (the memory), segment the element (the data) segment
SegmentInit_parse(k) ==
    IF At(k) # "EOF" /\ At(k + 1) \in IndexTokens
    THEN IF At(k) \notin IndexTokens THEN ArgErr("expected an index")
         ELSE ArgOk([target |-> Index(At(k)), segment |-> Index(At(k + 1))], 2)
    ELSE IF At(k) \notin IndexTokens THEN ArgErr("expected an index")
    ELSE ArgOk([target |-> IndexNum(0), segment |-> Index(At(k))], 1)

\* the instruction kw with the immediate the parser r gave
ArgInstruction(kw, r) == [err |-> r.err, instr |-> Instr(kw, r.v), n |-> r.n + 1]

\* the parser of the immediates of kw, from the second token on
ParseImmediates(kw) ==
    CASE kw \in LoadKeywords -> MemArg_parse(2, DefaultAlign(kw))
      [] kw = "select" -> SelectTypes_parse(2, 2, FALSE, <<>>)
      [] OTHER -> SegmentInit_parse(2)

\* Instruction::parse on the next tokens, for the instructions above
ParseArgInstruction ==
    IF At(1) \notin Keywords
    THEN [err |-> "expected an instruction", instr |-> NoInstr, n |-> 0]
    ELSE IF At(1) \notin ArgInstrKeywords
    THEN [err |-> "unknown operator or unexpected token", instr |-> NoInstr, n |-> 0]
    ELSE ArgInstruction(At(1), ParseImmediates(At(1)))

\* the tokens that are left
Rest == SubSeq(script, Len(toks) + 1, Len(script))

\* the arm Paren::None with the instruction r parsed
arm_args(r) ==
    IF r.err # "" THEN Fail(Self, r.err)
    ELSE Take(push_instr(Self, r.instr, Len(toks) + 1), r.n)

\* An iteration of the loop that takes the arm Paren::None, on a flat input
\* of the instructions above.
ParseArgs ==
    /\ status = "parsing"
    /\ ~free
    /\ LoopRuns(At(1))
    /\ paren(Self, At(1)) = "None"
    /\ Commit(arm_args(ParseArgInstruction), Rest)
    /\ UNCHANGED <<free, script, bytes, decoded, wvars>>

\* the next instruction is a memory access
ParseMemoryAccess ==
    /\ At(1) \in LoadKeywords
    /\ ParseArgs

\* the next instruction is a select
ParseSelect ==
    /\ At(1) = "select"
    /\ ParseArgs

\* the next instruction is a table.init
ParseTableInit ==
    /\ At(1) = "table.init"
    /\ ParseArgs

\* the next instruction is a memory.init
ParseMemoryInit ==
    /\ At(1) = "memory.init"
    /\ ParseArgs

\* the next token starts no instruction
ParseNoInstruction ==
    /\ At(1) \in (Keywords \cup IndexTokens) \ ArgInstrKeywords
    /\ ParseArgs

\* the sequences over S of at most n elements
SeqsUpTo(S, n) == UNION {[1..m -> S] : m \in 0..n}

\* a (result ...) clause
Clause(tys) == <<"(", "result">> \o tys \o <<")">>

RECURSIVE Flatten(_)
Flatten(ss) == IF ss = <<>> THEN <<>> ELSE ss[1] \o Flatten(Tail(ss))

\* memory accesses with an optional memory index and up to two fields
LoadScripts ==
    {<<kw>> \o m \o f1 \o f2 :
        kw \in LoadKeywords, m \in {<<>>, <<"1">>, <<"$a">>},
        f1 \in SeqsUpTo(FieldTokens, 1), f2 \in SeqsUpTo(FieldTokens, 1)}

\* select with up to MaxClauses clauses of up to MaxTypes types, and some
\* inputs that are not well formed
SelectScripts ==
    {<<"select">> \o Flatten(cs) \o t :
        cs \in SeqsUpTo({Clause(tys) : tys \in SeqsUpTo(ValTypes, MaxTypes)}, MaxClauses),
        t \in {<<>>, <<"nop">>}}
    \cup {<<"select", "(", "result", "i32">>, <<"select", "(", "result", "nop", ")">>,
          <<"select", "nop", "result">>, <<"select", "(", "result", ")", "(", "result", "1", ")">>}

\* table.init and memory.init followed by up to three indices or other tokens
InitScripts ==
    {<<kw>> \o a : kw \in {"table.init", "memory.init"},
                   a \in SeqsUpTo(IndexTokens \cup {"nop", "select"}, 3)}

ArgScripts == LoadScripts \cup SelectScripts \cup InitScripts

InitArgs ==
    /\ free = FALSE
    /\ script \in ArgScripts
    /\ toks = <<>>
    /\ raw_instrs = <<>>
    /\ stack = <<>>
    /\ branch_hints = <<>>
    /\ spans \in {None, Some(<<>>)}
    /\ status = "parsing"
    /\ errmsg = ""
    /\ bytes = <<>>
    /\ decoded = <<>>
    /\ input = <<>>
    /\ result = NoResult

NextArgs ==
    \/ ParseMemoryAccess \/ ParseSelect \/ ParseTableInit \/ ParseMemoryInit
    \/ ParseNoInstruction \/ Finish

SpecArgs == InitArgs /\ [][NextArgs]_vars

(***************************************************************************)
(* Instruction::needs_data_count, applied to the instructions of a         *)
(* function body one after the other.                                      *)
(***************************************************************************)
\* the most instructions of a body
MaxInstrs == 2

\* rows of the instruction table that name a data or an element segment, and
\* a few rows that name neither
SegmentKeywords ==
    {"memory.init", "data.drop", "array.new_data", "array.init_data",
     "array.new_elem", "array.init_elem", "elem.drop", "table.init",
     "memory.copy", "table.copy", "nop", "i32.load"}

\* the instructions of these rows, each with one of two payloads
SegmentInstrs == {Instr(op, <<n>>) : op \in SegmentKeywords, n \in {0, 1}}

\* needs_data_count answering true for the element segment instructions too
needs_data_count_ElemToo(instr) ==
    instr.op \in {"memory.init", "data.drop", "array.new_data", "array.init_data",
                  "array.new_elem", "array.init_elem", "elem.drop", "table.init"}

\* Instruction::needs_data_count
needs_data_count(instr) ==
    CASE instr.op = "memory.init" -> TRUE
      [] instr.op = "data.drop" -> TRUE
      [] instr.op = "array.new_data" -> TRUE
      [] instr.op = "array.init_data" -> TRUE
      [] OTHER -> FALSE

\* needs_data_count is called on the next instruction of the body; result
\* holds what the calls so far returned
NeedsDataCount ==
    /\ status = "ok"
    /\ Len(result) < Len(raw_instrs)
    /\ result' = Append(result, needs_data_count(raw_instrs[Len(result) + 1]))
    /\ UNCHANGED <<input, pvars>>

\* a body of at most MaxInstrs instructions, none looked at yet
InitData ==
    /\ free = FALSE
    /\ script = <<>>
    /\ toks = <<>>
    /\ raw_instrs \in SeqsUpTo(SegmentInstrs, MaxInstrs)
    /\ stack = <<>>
    /\ branch_hints = <<>>
    /\ spans = None
    /\ status = "ok"
    /\ errmsg = ""
    /\ bytes = <<>>
    /\ decoded = <<>>
    /\ input = <<>>
    /\ result = <<>>

NextData == NeedsDataCount

SpecData == InitData /\ [][NextData]_vars

(***************************************************************************)
(* The wat crate: parse_file, and Error::set_path on a returned error.     *)
(***************************************************************************)
\* the longest file, in bytes
MaxFileBytes == 2

\* the contents of the files
FileInputs == SeqsUpTo(ByteAlphabet, MaxFileBytes) \cup NamedInputs

\* the paths handed to parse_file and to set_path
FilePaths == {"foo", "bar"}

\* the messages of the std::io::Error of a failed read
IoErrors == {"entity not found", "permission denied"}

\* ErrorKind::Io { err, file }
Io(msg, file) == [kind |-> "Io", msg |-> msg, file |-> file]

\* wast::Error::set_path, which Error::set_path calls on the inner error
wast_Error_set_path(e, file) == [e EXCEPT !.file = file]

\* set_path keeping a path that is stored already
set_path_KeepFirst(e, file) ==
    CASE e.kind = "Wast" -> wast_Error_set_path(e, file)
      [] e.kind = "Custom" -> IF e.file = NoPath THEN [e EXCEPT !.file = file] ELSE e
      [] e.kind = "Io" -> IF e.file = NoPath THEN [e EXCEPT !.file = file] ELSE e

\* Error::set_path
set_path(e, file) ==
    CASE e.kind = "Wast" -> wast_Error_set_path(e, file)
      [] e.kind = "Custom" -> [e EXCEPT !.file = file]
      [] e.kind = "Io" -> [e EXCEPT !.file = file]

\* an assert_eq! of _parse_file failed
Panicked ==
    Err([kind |-> "panic", msg |-> "assertion 'left == right' failed", file |-> NoPath],
        FALSE, FALSE)

\* Parser::_parse_file after std::fs::read returned contents: r is what
\* parse_bytes returned on them
_parse_file_parsed(file, contents, r) ==
    IF r.ok
    THEN IF r.val.cow = "Borrowed"
         THEN IF r.val.len # Len(contents) \/ r.val.off # 0 THEN Panicked
              ELSE Ok(Owned(contents), r.utf8, r.lexed)
         ELSE Ok(Owned(r.val.data), r.utf8, r.lexed)
    ELSE Err(set_path(r.err, file), r.utf8, r.lexed)

\* Parser::_parse_file; io is the error of std::fs::read, "" when it succeeds
\* with contents
_parse_file(file, io, contents) ==
    IF io # "" THEN Err(Io(io, file), FALSE, FALSE)
    ELSE _parse_file_parsed(file, contents, Parser_parse_bytes(file, contents))

\* a call of parse_file on a file that holds the bytes of input
CallParseFile ==
    /\ result = NoResult
    /\ \E file \in FilePaths :
          result' = Returned("parse_file", file, _parse_file(file, "", input))
    /\ UNCHANGED <<input, pvars>>

\* a call of parse_file on a file that cannot be read
CallParseFileUnreadable ==
    /\ result = NoResult
    /\ \E file \in FilePaths, io \in IoErrors :
          result' = Returned("parse_file", file, _parse_file(file, io, <<>>))
    /\ UNCHANGED <<input, pvars>>

\* a call of Error::set_path on the error an entry point returned
SetPath ==
    /\ result.err.kind \in {"Wast", "Custom", "Io"}
    /\ \E file \in FilePaths :
          result' = [result EXCEPT !.api = "set_path", !.path = file,
                                   !.err = set_path(@, file)]
    /\ UNCHANGED <<input, pvars>>

\* the wat crate is given a file, or its bytes
InitFile ==
    /\ free = FALSE
    /\ script = <<>>
    /\ toks = <<>>
    /\ raw_instrs = <<>>
    /\ stack = <<>>
    /\ branch_hints = <<>>
    /\ spans = None
    /\ status = "parsing"
    /\ errmsg = ""
    /\ bytes = <<>>
    /\ decoded = <<>>
    /\ input \in FileInputs
    /\ result = NoResult

NextFile ==
    \/ CallParseBytes \/ CallParserParseBytes \/ CallParseFile
    \/ CallParseFileUnreadable \/ SetPath

SpecFile == InitFile /\ [][NextFile]_vars

(***************************************************************************)
(* The wat crate: Detect::from_bytes.  The lexer is seen through the kinds *)
(* of the tokens it yields, whitespace and comments included.              *)
(***************************************************************************)
\* the longest input of Detect::from_bytes among the exhaustive ones
MaxDetectBytes == 4

\* ( ) ; newline space m and a byte that is no UTF-8
DetectAlphabet == {40, 41, 59, 10, 32, 109, 255}

\* "(;;)(", "(;(;;);)(", ";;m\n(", " \n(module)", "(;;", "\0", "\0asm",
\* "\0asm" and a byte that is no UTF-8, the header of a binary module
DetectNamed ==
    {<<40, 59, 59, 41, 40>>, <<40, 59, 40, 59, 59, 41, 59, 41, 40>>,
     <<59, 59, 109, 10, 40>>, <<32, 10, 40>> \o KwModule \o <<41>>,
     <<40, 59, 59>>, <<0>>, Magic, Magic \o <<255>>, Header}

DetectInputs == SeqsUpTo(DetectAlphabet, MaxDetectBytes) \cup DetectNamed

\* the byte at position i of bs, -1 past the end
ByteAt(bs, i) == IF i <= Len(bs) THEN bs[i] ELSE -1

RECURSIVE BlockCommentEnd(_, _, _)
\* the position of the ")" that ends the block comment whose text goes on at
\* position i, depth comments being open; 0 when the comment is not ended
BlockCommentEnd(bs, i, depth) ==
    IF i > Len(bs) THEN 0
    ELSE IF bs[i] = 40 /\ ByteAt(bs, i + 1) = 59 THEN BlockCommentEnd(bs, i + 2, depth + 1)
    ELSE IF bs[i] = 59 /\ ByteAt(bs, i + 1) = 41
    THEN IF depth = 1 THEN i + 1 ELSE BlockCommentEnd(bs, i + 2, depth - 1)
    ELSE BlockCommentEnd(bs, i + 1, depth)

RECURSIVE RunEnd(_, _, _)
\* the first position from i on whose byte is not in S
RunEnd(bs, i, S) == IF ByteAt(bs, i) \in S THEN RunEnd(bs, i + 1, S) ELSE i

RECURSIVE LineEnd(_, _)
\* the position of the newline that ends the line of position i
LineEnd(bs, i) == IF i > Len(bs) \/ bs[i] = 10 THEN i ELSE LineEnd(bs, i + 1)

RECURSIVE TokenKinds(_, _)
\* Lexer::iter: the kinds of the tokens of the text bs from position i on;
\* an error of the lexer ends the list with "Error"
TokenKinds(bs, i) ==
    IF i > Len(bs) THEN <<>>
    ELSE CASE bs[i] \in Whitespace ->
                <<"Whitespace">> \o TokenKinds(bs, RunEnd(bs, i, Whitespace))
           [] bs[i] = 40 /\ ByteAt(bs, i + 1) = 59 ->
                IF BlockCommentEnd(bs, i + 2, 1) = 0 THEN <<"Error">>
                ELSE <<"BlockComment">> \o TokenKinds(bs, BlockCommentEnd(bs, i + 2, 1) + 1)
           [] bs[i] = 40 /\ ByteAt(bs, i + 1) # 59 ->
                <<"LParen">> \o TokenKinds(bs, i + 1)
           [] bs[i] = 41 -> <<"RParen">> \o TokenKinds(bs, i + 1)
           [] bs[i] = 59 /\ ByteAt(bs, i + 1) = 59 ->
                <<"LineComment">> \o TokenKinds(bs, LineEnd(bs, i))
           [] bs[i] \in IdChars -> <<"Keyword">> \o TokenKinds(bs, RunEnd(bs, i, IdChars))
           [] OTHER -> <<"Error">>

RECURSIVE Detect_scan_NoComments(_, _)
\* the loop of Detect::from_bytes skipping whitespace only
Detect_scan_NoComments(ks, k) ==
    IF k > Len(ks) THEN "Unknown"
    ELSE CASE ks[k] = "Whitespace" -> Detect_scan_NoComments(ks, k + 1)
           [] ks[k] = "LParen" -> "WasmText"
           [] OTHER -> "Unknown"

RECURSIVE Detect_scan(_, _)
\* the loop of Detect::from_bytes over the tokens ks, from the k-th on
Detect_scan(ks, k) ==
    IF k > Len(ks) THEN "Unknown"
    ELSE CASE ks[k] \in {"Whitespace", "BlockComment", "LineComment"} ->
                Detect_scan(ks, k + 1)
           [] ks[k] = "LParen" -> "WasmText"
           [] OTHER -> "Unknown"

\* Detect::from_bytes
Detect_from_bytes(bs) ==
    IF starts_with(bs, Magic) THEN "WasmBinary"
    ELSE IF ~from_utf8(bs) THEN "Unknown"
    ELSE Detect_scan(TokenKinds(bs, 1), 1)

\* a call of Detect::from_bytes
CallDetect ==
    /\ result = NoResult
    /\ result' = [api |-> "Detect::from_bytes", detect |-> Detect_from_bytes(input)]
    /\ UNCHANGED <<input, pvars>>

\* Detect::from_bytes is given any input of at most MaxDetectBytes bytes, or
\* a named one
InitDetect ==
    /\ free = FALSE
    /\ script = <<>>
    /\ toks = <<>>
    /\ raw_instrs = <<>>
    /\ stack = <<>>
    /\ branch_hints = <<>>
    /\ spans = None
    /\ status = "parsing"
    /\ errmsg = ""
    /\ bytes = <<>>
    /\ decoded = <<>>
    /\ input \in DetectInputs
    /\ result = NoResult

NextDetect == CallDetect

SpecDetect == InitDetect /\ [][NextDetect]_vars

(***************************************************************************)
(* Expression::parse_folded_instruction: one folded instruction.  While it *)
(* runs status is "folding".  A panic ends the run like an error does,     *)
(* with the message of the panic.                                          *)
(***************************************************************************)
\* the messages of stack.pop().unwrap() on an empty stack and of the panic!
\* of parse_folded_instruction
PanicMessages ==
    {"called 'Option::unwrap()' on a 'None' value", "unknown level type"}

\* fold_left appending the instruction when its "(" is consumed
fold_left_EmitAtOpen(p0, la, pos) ==
    LET p == Take(p0, 1)
        r == ParseInstruction(la[2], la[3])
    IN
    IF r.err # "" THEN Fail(p, r.err)
    ELSE push_level(push_instr(Take(p, r.n), r.instr, pos + 2), IfArm)

\* Paren::Left of parse_folded_instruction: the "(" at position pos + 1 was
\* consumed, the instruction after it is parsed and kept in a level
fold_left(p0, la, pos) ==
    LET p == Take(p0, 1)
        r == ParseInstruction(la[2], la[3])
    IN
    IF r.err # "" THEN Fail(p, r.err)
    ELSE push_level(Take(p, r.n), EndWith(r.instr, pos + 2))

\* the match on the popped level in parse_folded_instruction
fold_pop(p, level, span) ==
    IF level.kind # "EndWith" THEN Fail(p, "unknown level type")
    ELSE push_instr(p, level.instr, IF level.span = 0 THEN span ELSE level.span)

\* Paren::Right(span) of parse_folded_instruction: the ")" at position
\* pos + 1 was consumed
fold_right(p0, pos) ==
    IF p0.stack = <<>> THEN Fail(p0, "called 'Option::unwrap()' on a 'None' value")
    ELSE fold_pop([Take(p0, 1) EXCEPT !.stack = Pop(@)], p0.stack[Len(p0.stack)], pos + 1)

\* Paren::None of parse_folded_instruction
fold_none(p) == Fail(p, "expected to continue a folded instruction")

\* the fields after an iteration of parse_folded_instruction that left p;
\* done is set when the stack was emptied by a ")"
CommitFolded(p, la, done) ==
    IF p.err # ""
    THEN /\ status' = "err"
         /\ errmsg' = p.err
         /\ UNCHANGED <<toks, raw_instrs, stack, branch_hints, spans>>
    ELSE /\ toks' = toks \o SubSeq(la, 1, p.n)
         /\ raw_instrs' = p.raw_instrs
         /\ stack' = p.stack
         /\ branch_hints' = p.branch_hints
         /\ spans' = p.spans
         /\ status' = IF done /\ p.stack = <<>> THEN "ok" ELSE "folding"
         /\ UNCHANGED errmsg

\* an iteration of parse_folded_instruction that takes the arm Paren::Left
FoldedLeft ==
    /\ status = "folding"
    /\ \E la \in Upcoming :
          /\ paren(Self, la[1]) = "Left"
          /\ CommitFolded(fold_left(Self, la, Len(toks)), la, FALSE)
    /\ UNCHANGED <<free, script, bytes, decoded, wvars>>

\* an iteration of parse_folded_instruction that takes the arm Paren::Right
FoldedRight ==
    /\ status = "folding"
    /\ \E la \in Upcoming :
          /\ paren(Self, la[1]) = "Right"
          /\ CommitFolded(fold_right(Self, Len(toks)), la, TRUE)
    /\ UNCHANGED <<free, script, bytes, decoded, wvars>>

\* an iteration of parse_folded_instruction that takes the arm Paren::None
FoldedNone ==
    /\ status = "folding"
    /\ \E la \in Upcoming :
          /\ paren(Self, la[1]) = "None"
          /\ CommitFolded(fold_none(Self), la, FALSE)
    /\ UNCHANGED <<free, script, bytes, decoded, wvars>>

\* (i32.add (i32.const 1) (i32.const 2)) nop
FoldedThenFlatBody == FoldedAddBody \o <<"nop">>

\* (block nop)
FlatInFoldedBody == <<"(", "block", "nop", ")">>

\* (block (nop)) ) (nop)
FoldedBlockBody == <<"(", "block", "(", "nop", ")", ")", ")", "(", "nop", ")">>

\* the inputs of parse_folded_instruction that are fixed in advance
FoldedScripts ==
    {<<>>, <<"nop">>, <<")">>, FoldedAddBody, FoldedThenFlatBody, FlatInFoldedBody,
     FoldedBlockBody, IfThenElseBody, UnclosedBody, HintedNopBody}

\* ExpressionParser::new in Expression::parse_folded_instruction
InitFolded ==
    /\ \/ free = TRUE /\ script = <<>>
       \/ free = FALSE /\ script \in FoldedScripts
    /\ toks = <<>>
    /\ raw_instrs = <<>>
    /\ stack = <<>>
    /\ branch_hints = <<>>
    /\ spans \in {None, Some(<<>>)}
    /\ status = "folding"
    /\ errmsg = ""
    /\ bytes = <<>>
    /\ decoded = <<>>
    /\ input = <<>>
    /\ result = NoResult

NextFolded == FoldedLeft \/ FoldedRight \/ FoldedNone

SpecFolded == InitFolded /\ [][NextFolded]_vars

\* either entry point of Expression: parse or parse_folded_instruction
InitEntries == Init \/ InitFolded

NextEntries == ParseNone \/ ParseLeft \/ ParseRight \/ Finish \/ NextFolded

SpecEntries == InitEntries /\ [][NextEntries]_vars

(***************************************************************************)
(* Helpers of the properties.                                              *)
(***************************************************************************)
\* the operators of a list of instructions
Ops(is) == [m \in 1..Len(is) |-> is[m].op]

\* the nesting depth after the first i tokens of t
Depth(t, i) == Count(SubSeq(t, 1, i), {"("}) - Count(SubSeq(t, 1, i), {")"})

\* the position of the ")" that closes the "(" at position i of t, 0 if none
Match(t, i) ==
    LET js == {j \in (i + 1)..Len(t) : t[j] = ")" /\ Depth(t, j) = Depth(t, i) - 1}
    IN IF js = {} THEN 0 ELSE CHOOSE j \in js : \A k \in js : j <= k

\* the positions of the "(" that open a folded if
FoldedIfs(t) == {i \in 1..(Len(t) - 1) : t[i] = "(" /\ t[i + 1] = "if"}

\* the positions of kw opening an arm directly inside the folded if at i
Arms(t, i, kw) ==
    {q \in (i + 2)..Len(t) :
        /\ t[q] = kw /\ t[q - 1] = "("
        /\ Depth(t, q - 1) = Depth(t, i) + 1
        /\ (Match(t, i) = 0 \/ q < Match(t, i))}

\* the position of the "then" of the folded if at i, 0 if none
ThenOf(t, i) == IF Arms(t, i, "then") = {} THEN 0 ELSE CHOOSE q \in Arms(t, i, "then") : TRUE

\* the position of the "else" that opens the else arm of the folded if at i
ElseOf(t, i) ==
    LET qs == {q \in Arms(t, i, "else") : ThenOf(t, i) # 0 /\ q > ThenOf(t, i)}
    IN IF qs = {} THEN 0 ELSE CHOOSE q \in qs : TRUE

\* the index in the flat list of the instruction whose span is s, 0 if none
IndexOf(s) ==
    LET ms == {m \in 1..Len(spans.v) : spans.v[m] = s}
    IN IF ms = {} THEN 0 ELSE CHOOSE m \in ms : TRUE

(***************************************************************************)
(* Properties.                                                             *)
(***************************************************************************)
\* the number of If levels of the stack that still hold their instruction
PendingIfs == Cardinality({l \in 1..Len(stack) : stack[l].kind = "If" /\ stack[l].st = "Clause"})

\* The instructions of the folded if whose "(" is at position i of the input
\* are in one run of the flat list, in the order clause, if, then arm, else,
\* else arm, end.  Spans tell which token an instruction comes from.
FoldedIfInOrder(i) ==
    LET j == Match(toks, i)
        th == ThenOf(toks, i)
        el == ElseOf(toks, i)
        kIf == IndexOf(i + 1)
        kEnd == IndexOf(j)
        kElse == IF el = 0 THEN 0 ELSE IndexOf(el)
        inside == {m \in 1..Len(raw_instrs) : spans.v[m] > i /\ spans.v[m] <= j}
    IN /\ j # 0 /\ th # 0
       /\ kIf # 0 /\ raw_instrs[kIf].op = "if"
       /\ kEnd # 0 /\ raw_instrs[kEnd] = End
       /\ (el # 0 => kElse # 0 /\ raw_instrs[kElse] = Else /\ kIf < kElse)
       /\ inside = (kEnd - Cardinality(inside) + 1)..kEnd
       /\ \A m \in inside \ {kIf, kEnd, kElse} :
             LET sp == spans.v[m] IN
             CASE sp < th -> m < kIf
               [] el = 0 \/ sp < el -> kIf < m /\ (el = 0 \/ m < kElse)
               [] OTHER -> kElse < m

\* the flat list of (if (i32.const 1) (then nop) (else unreachable))
IfThenElseFlat ==
    <<Instr("i32.const", <<1>>), Instr("if", <<>>), Instr("nop", <<>>), Else,
      Instr("unreachable", <<>>), End>>

\* C1: a folded if is flattened to its clause, then If, which is held back
\* until (then is seen, then the then arm, Else, the else arm and End; the
\* example of the specification flattens to i32.const 1; if; nop; else;
\* unreachable; end.
C1_FoldedIfOrder ==
    /\ Count(Ops(raw_instrs), {"if"}) = Count(toks, {"if"}) - PendingIfs
    /\ (status = "ok" /\ spans.some => \A i \in FoldedIfs(toks) : FoldedIfInOrder(i))
    /\ (status = "ok" /\ script = IfThenElseBody => raw_instrs = IfThenElseFlat)

C1_Witness ==
    /\ status = "ok" /\ script = IfThenElseBody /\ spans.some
    /\ raw_instrs = IfThenElseFlat

\* the entry points that take bytes
BytesApis == {"parse_bytes", "Parser::parse_bytes"}

\* C2: bytes that start with \0asm come back as they are, borrowed from the
\* input, and are neither checked to be UTF-8 nor parsed, whatever follows
\* the four bytes.
C2_BinaryPassThrough ==
    result.api \in BytesApis /\ starts_with(input, Magic) =>
        /\ result.ok
        /\ result.val = Borrowed(0, Len(input))
        /\ ValueBytes(result.val) = input
        /\ ~result.utf8 /\ ~result.lexed

C2_Witness ==
    /\ result.api = "parse_bytes" /\ result.ok
    /\ input = Magic \o <<255>>
    /\ ValueBytes(result.val) = input

\* C3: bytes that neither start with \0asm nor are UTF-8 give the error
\* "input bytes aren't valid utf-8", shown after "failed to parse 'path': "
\* only when a path was given, and the text parser is not invoked.
C3_InvalidUtf8 ==
    result.api \in BytesApis /\ ~starts_with(input, Magic) /\ ~from_utf8(input) =>
        /\ ~result.ok
        /\ result.err = Custom("input bytes aren't valid utf-8", result.path)
        /\ ~result.lexed
        /\ Display(result.err) =
              IF result.path = NoPath THEN <<"input bytes aren't valid utf-8">>
              ELSE <<"failed to parse '", result.path, "': ",
                     "input bytes aren't valid utf-8">>

C3_Witness ==
    /\ result.api = "Parser::parse_bytes" /\ result.path = "foo"
    /\ input = <<255>> /\ ~result.ok

\* the text (module)
ModuleText == <<40>> \o KwModule \o <<41>>

\* C4: the text (module) parses, with parse_str and with parse_bytes, to
\* the eight bytes 00 61 73 6D 01 00 00 00, and the bare word module is an
\* error.
C4_EmptyModule ==
    /\ (result.api # "" /\ input = ModuleText =>
            result.ok /\ ValueBytes(result.val) = <<0, 97, 115, 109, 1, 0, 0, 0>>)
    /\ (result.api # "" /\ input = KwModule => ~result.ok)

C4_Witness ==
    /\ result.api = "parse_str" /\ input = ModuleText
    /\ result.ok /\ ValueBytes(result.val) = Header

C6_HintIndexIsNextInstr ==
    [][Len(branch_hints') > Len(branch_hints) =>
          /\ branch_hints' = Append(branch_hints, branch_hints'[Len(branch_hints')])
          /\ branch_hints'[Len(branch_hints')].instr_index = Len(raw_instrs)
          /\ raw_instrs' = raw_instrs]_vars

C6_Witness ==
    /\ script = HintedBrIfBody /\ status = "ok"
    /\ branch_hints = <<[instr_index |-> 1, value |-> 0]>>
    /\ raw_instrs[2].op = "br_if"

\* C7: the body (@metadata.code.branch_hint "\01") (if (i32.const 0) (then))
\* carries one branch hint, with instruction index 1 and value 1.
C7_HintOnFoldedIf ==
    status = "ok" /\ script = HintedIfBody =>
        branch_hints = <<[instr_index |-> 1, value |-> 1]>>

\* C8: in a parsed expression every branch hint has the index of an if or
\* br_if of the flat list: a hint followed by another instruction, or by
\* none, is not accepted.
C8_HintsPointAtBranches ==
    status = "ok" =>
        \A k \in 1..Len(branch_hints) :
            /\ branch_hints[k].instr_index + 1 <= Len(raw_instrs)
            /\ raw_instrs[branch_hints[k].instr_index + 1].op \in {"if", "br_if"}

\* the instructions that open a block
Openers == {"block", "loop", "if", "try_table", "try"}

RECURSIVE Nesting(_, _, _, _)
\* A walk over the instructions is from k on: open holds, for each block
\* that is open, its opener and the number of its elses; twice is TRUE once
\* an if has had a second else.
Nesting(is, k, open, twice) ==
    IF k > Len(is) THEN [open |-> open, twice |-> twice]
    ELSE LET op == is[k].op
             n == Len(open)
         IN
         CASE op \in Openers ->
                Nesting(is, k + 1, Append(open, [op |-> op, elses |-> 0]), twice)
           [] op = "end" /\ n > 0 -> Nesting(is, k + 1, SubSeq(open, 1, n - 1), twice)
           [] op = "else" /\ n > 0 /\ open[n].op = "if" ->
                Nesting(is, k + 1, [open EXCEPT ![n].elses = @ + 1],
                        twice \/ open[n].elses >= 1)
           [] OTHER -> Nesting(is, k + 1, open, twice)

\* every opener has its end and no if has two elses
WellNested(is) ==
    LET r == Nesting(is, 1, <<>>, FALSE) IN r.open = <<>> /\ ~r.twice

\* Every block of the input is written folded and is a block, loop, if or
\* try_table, and every else of the input opens the else arm of a folded if.
AllFolded(t) ==
    \A q \in 1..Len(t) :
        /\ (t[q] \in {"block", "loop", "if", "try_table"} => q > 1 /\ t[q - 1] = "(")
        /\ t[q] # "try"
        /\ (t[q] = "else" => \E i \in FoldedIfs(t) : ElseOf(t, i) = q)

C10_ImplicitEndAppended ==
    status = "ok" => raw_instrs # <<>> /\ raw_instrs[Len(raw_instrs)] = End

\* C10: when the parse succeeds, with every level popped, no End is
\* appended: the flat list is the one the loop built.
C10_NoEndAppended ==
    [][status = "parsing" /\ status' = "ok" => stack = <<>> /\ raw_instrs' = raw_instrs]_vars

C10_Witness == status = "ok" /\ ~free /\ script = <<>> /\ raw_instrs = <<>>

\* the If level on top of the stack is in state st
TopIf(st) == stack # <<>> /\ Top.kind = "If" /\ Top.st = st

\* the positions of the ")" that close a folded block, loop, try_table or if
FoldedBlockCloses(t) ==
    {Match(t, i) : i \in {i \in 1..(Len(t) - 1) :
                            t[i] = "(" /\ t[i + 1] \in {"block", "loop", "try_table", "if"}}}
        \ {0}

\* the number of levels of the stack that hold the End of a folded (end)
HeldEnds ==
    Cardinality({l \in 1..Len(stack) :
                    stack[l].kind = "EndWith" /\ stack[l].instr = End /\ stack[l].span # 0})

\* C11: the instructions never hold the implicit end of the expression: an
\* empty body has no instructions, and every End of the list comes from an
\* end keyword or from the ")" that closes a folded block, loop, try_table
\* or if.
C11_OnlyWrittenEnds ==
    /\ (status = "ok" /\ toks = <<>> => raw_instrs = <<>>)
    /\ Count(Ops(raw_instrs), {"end"})
          = Count(toks, {"end"}) - HeldEnds + Cardinality(FoldedBlockCloses(toks))
    /\ (spans.some =>
          \A m \in 1..Len(raw_instrs) :
              raw_instrs[m] = End =>
                  \/ toks[spans.v[m]] = "end"
                  \/ spans.v[m] \in FoldedBlockCloses(toks))

C11_Witness ==
    /\ status = "ok" /\ free /\ spans.some
    /\ toks = <<"(", "if", "(", "then", ")", ")", "end">>
    /\ Ops(raw_instrs) = <<"if", "end", "end">>

\* C12: the state of a folded if moves Clause, Then, Else and never back;
\* the step from Then to Else takes "(" and else and emits one Else; in
\* state Then a "(" followed by anything but else, a second then included,
\* is the error "expected keyword 'else'".
C12_IfStateForward ==
    [][/\ \A l \in 1..Len(stack) :
            l <= Len(stack') /\ stack[l].kind = "If" /\ stack'[l].kind = "If" =>
                \/ stack'[l].st = stack[l].st
                \/ /\ stack[l].st = "Clause" /\ stack'[l].st = "Then"
                   /\ l = Len(stack)
                   /\ raw_instrs' = Append(raw_instrs, stack[l].instr)
                \/ /\ stack[l].st = "Then" /\ stack'[l].st = "Else"
                   /\ l = Len(stack)
                   /\ toks' = toks \o <<"(", "else">>
                   /\ raw_instrs' = Append(raw_instrs, Else)
       /\ (TopIf("Then") /\ status = "parsing" /\ status' = "parsing" =>
              \/ toks' = toks \o <<")">>
              \/ toks' = toks \o <<"(", "else">> /\ TopIf("Then")' = FALSE
                    /\ stack'[Len(stack)].st = "Else")
       /\ (TopIf("Then") /\ status = "parsing" /\ ~free /\ At(1) = "(" /\ At(2) # "else" =>
              /\ status' = "err" /\ errmsg' = "expected keyword 'else'"
              /\ raw_instrs' = raw_instrs)
      ]_vars

C12_Witness ==
    /\ script = TwoThenBody /\ status = "err" /\ TopIf("Then")
    /\ errmsg = "expected keyword 'else'"
    /\ Ops(raw_instrs) = <<"if">>

\* C13: once the else arm of a folded if has been opened, a "(" directly
\* inside the if is the error "unexpected token: too many payloads inside
\* of '(if)'" and emits no instruction: the only token taken in state Else
\* is the ")" of the if.
C13_TooManyPayloads ==
    [][/\ (TopIf("Else") /\ status = "parsing" /\ status' = "parsing" =>
              toks' = toks \o <<")">>)
       /\ (TopIf("Else") /\ status = "parsing" /\ ~free /\ At(1) = "(" =>
              /\ status' = "err"
              /\ errmsg' = "unexpected token: too many payloads inside of '(if)'"
              /\ raw_instrs' = raw_instrs /\ branch_hints' = branch_hints
              /\ stack' = stack)
      ]_vars

C13_Witness ==
    /\ script = TooManyBody /\ status = "err" /\ TopIf("Else")
    /\ errmsg = "unexpected token: too many payloads inside of '(if)'"
    /\ Ops(raw_instrs) = <<"i32.const", "if", "else">>

\* C14: the ")" of a folded if that is still in state Clause is the error
\* "previous 'if' had no 'then'" and the If is not emitted; in state Then
\* or Else the ")" emits one End.
C14_CloseOfIf ==
    [][/\ (stack # <<>> /\ Top.kind = "If" /\ status = "parsing"
             /\ toks' = toks \o <<")">> =>
              /\ Top.st \in {"Then", "Else"}
              /\ raw_instrs' = Append(raw_instrs, End)
              /\ stack' = Pop(stack))
       /\ (TopIf("Clause") /\ status = "parsing" /\ ~free /\ At(1) = ")" =>
              /\ status' = "err" /\ errmsg' = "previous 'if' had no 'then'"
              /\ raw_instrs' = raw_instrs
              /\ Count(Ops(raw_instrs'), {"if"}) = Count(toks, {"if"}) - PendingIfs)
       /\ (status' = "err" /\ errmsg' = "previous 'if' had no 'then'" =>
              TopIf("Clause") /\ raw_instrs' = raw_instrs)
      ]_vars

C14_Witness ==
    /\ script = NoThenBody /\ status = "err" /\ TopIf("Clause")
    /\ errmsg = "previous 'if' had no 'then'"
    /\ Ops(raw_instrs) = <<"i32.const">>

\* the positions of the "(" that open a folded instruction that is no
\* block, loop, if or try_table and no arm of a folded if
FoldedPlain(t) ==
    {i \in 1..(Len(t) - 1) :
        /\ t[i] = "("
        /\ t[i + 1] \in InstrKeywords \ {"block", "loop", "if", "try_table"}
        /\ ~\E f \in FoldedIfs(t) : ElseOf(t, f) = i + 1}

\* the flat list of (i32.add (i32.const 1) (i32.const 2))
FoldedAddFlat ==
    <<Instr("i32.const", <<1>>), Instr("i32.const", <<2>>), Instr("i32.add", <<>>)>>

\* C15: the instruction of a folded form that is no block, loop, if or
\* try_table is appended when its ")" is taken, after every instruction
\* written inside the form: (i32.add (i32.const 1) (i32.const 2)) flattens
\* to i32.const 1; i32.const 2; i32.add.
C15_OperandsFirst ==
    /\ (status = "ok" /\ spans.some =>
          \A i \in FoldedPlain(toks) :
              LET j == Match(toks, i)
                  k == IndexOf(i + 1)
              IN /\ j # 0 /\ k # 0
                 /\ raw_instrs[k].op = toks[i + 1]
                 /\ \A m \in 1..Len(raw_instrs) :
                       /\ (spans.v[m] > i + 1 /\ spans.v[m] <= j => m < k)
                       /\ (spans.v[m] > j => m > k))
    /\ (\A l \in 1..Len(stack) :
          stack[l].kind = "EndWith" /\ stack[l].span # 0 =>
              /\ toks[stack[l].span] = stack[l].instr.op
              /\ spans.some => IndexOf(stack[l].span) = 0)
    /\ (status = "ok" /\ script = FoldedAddBody => raw_instrs = FoldedAddFlat)

C15_Witness ==
    /\ status = "ok" /\ script = FoldedAddBody /\ spans.some
    /\ raw_instrs = FoldedAddFlat

\* C18: a branch hint is recorded only for a payload of one byte, 0 or 1,
\* with that byte as its value; any other payload, empty, longer or
\* another byte, is the error "invalid value for branch hint" and records
\* nothing, so every recorded value is 0 or 1.
C18_HintPayload ==
    [][/\ (branch_hints' # branch_hints =>
              \E c \in Strings :
                  /\ toks' = toks \o <<"(", "@bh", c>>
                  /\ StringBytes(c) \in {<<0>>, <<1>>}
                  /\ branch_hints' = Append(branch_hints,
                                            [instr_index |-> Len(raw_instrs),
                                             value |-> StringBytes(c)[1]]))
       /\ (status = "parsing" /\ ~free
             /\ At(1) = "(" /\ At(2) = "@bh" /\ At(3) \in Strings
             /\ ~TopIf("Then") /\ ~TopIf("Else")
             /\ StringBytes(At(3)) \notin {<<0>>, <<1>>} =>
              /\ status' = "err" /\ errmsg' = "invalid value for branch hint"
              /\ branch_hints' = branch_hints)
       /\ \A k \in 1..Len(branch_hints') : branch_hints'[k].value \in {0, 1}
      ]_vars

C18_Witness ==
    /\ script = EmptyHintBody /\ status = "err"
    /\ errmsg = "invalid value for branch hint"
    /\ branch_hints = <<>>

\* the align=N keywords with a number, and their numbers
AlignFields ==
    {"align=0", "align=1", "align=2", "align=3", "align=4", "align=6", "align=8",
     "align=16", "align=0x10"}

AlignNumber(t) ==
    CASE t = "align=0" -> 0 [] t = "align=1" -> 1 [] t = "align=2" -> 2
      [] t = "align=3" -> 3 [] t = "align=4" -> 4 [] t = "align=6" -> 6
      [] t = "align=8" -> 8 [] t = "align=16" -> 16 [] t = "align=0x10" -> 16

\* the offset=N keywords with a number, and their numbers
OffsetFields == {"offset=0", "offset=8"}

OffsetNumber(t) == IF t = "offset=8" THEN 8 ELSE 0

\* the place of the align=N of the memory access s, after the memory index
\* and the offset=N if they are there; 0 if s has none
AlignAt(s) ==
    LET k1 == IF Len(s) >= 2 /\ s[2] \in IndexTokens THEN 3 ELSE 2
        k2 == IF Len(s) >= k1 /\ s[k1] \in OffsetFields THEN k1 + 1 ELSE k1
    IN IF Len(s) >= k2 /\ s[k2] \in AlignFields THEN k2 ELSE 0

OffsetAlign(s) ==
    /\ Len(s) = 3 /\ s[1] \in LoadKeywords
    /\ s[2] \in OffsetFields
    /\ s[3] \in AlignFields /\ AlignNumber(s[3]) \in {1, 2, 4, 8, 16}

AlignOffset(s) == Len(s) = 3 /\ OffsetAlign(<<s[1], s[3], s[2]>>)

\* C17 as stated: align=A offset=N is accepted and gives the MemArg of
\* offset=N align=A, offset N and align A.
C17_OrderInsensitive ==
    AlignOffset(script) /\ status # "parsing" =>
        /\ status = "ok"
        /\ raw_instrs = <<Instr(script[1], <<[offset |-> OffsetNumber(script[3]),
                                             align |-> AlignNumber(script[2]),
                                             memory |-> IndexNum(0)]>>)>>

\* C17: offset=N align=A, in this order, gives the MemArg of offset N and
\* align A; align=A offset=N gives a MemArg of offset 0 and align A that
\* leaves offset=N, which the loop then rejects as no instruction.
C17_OffsetThenAlign ==
    /\ (OffsetAlign(script) /\ status # "parsing" =>
          /\ status = "ok"
          /\ raw_instrs = <<Instr(script[1], <<[offset |-> OffsetNumber(script[2]),
                                               align |-> AlignNumber(script[3]),
                                               memory |-> IndexNum(0)]>>)>>)
    /\ (AlignOffset(script) /\ status # "parsing" =>
          /\ status = "err"
          /\ errmsg = "unknown operator or unexpected token"
          /\ toks = <<script[1], script[2]>>
          /\ raw_instrs = <<Instr(script[1], <<[offset |-> 0,
                                               align |-> AlignNumber(script[2]),
                                               memory |-> IndexNum(0)]>>)>>)

C17_Witness ==
    /\ script = <<"i32.load", "align=4", "offset=8">>
    /\ status = "err" /\ errmsg = "unknown operator or unexpected token"
    /\ raw_instrs[1].imm[1].offset = 0

IsValType(t) == t \in ValTypes

\* C19: the types of a select are the types of all its (result ...)
\* clauses, one after the other in the order written; an empty (result)
\* adds no type but makes the list present; with no clause there is no list.
C19_SelectResults ==
    script # <<>> /\ script[1] = "select" /\ raw_instrs # <<>> =>
        /\ raw_instrs[1].op = "select"
        /\ raw_instrs[1].imm[1].tys =
              IF Count(script, {"result"}) > 0
              THEN Some(SelectSeq(script, IsValType))
              ELSE None
        /\ Len(toks) >= 1 + Count(script, {"(", ")", "result"} \cup ValTypes)

C19_Witness ==
    /\ script = <<"select">> \o Clause(<<"i32">>) \o Clause(<<"f64", "i32">>)
    /\ status = "ok"
    /\ raw_instrs[1].imm[1].tys = Some(<<"i32", "f64", "i32">>)

\* C20: when the second token after table.init or memory.init is an index,
\* the first index is the table (the memory) and the second the segment;
\* otherwise the one index is the segment and the table (the memory) is 0.
C20_SegmentInit ==
    script # <<>> /\ script[1] \in {"table.init", "memory.init"} =>
        /\ (raw_instrs # <<>> =>
              /\ Len(script) >= 2 /\ script[2] \in IndexTokens
              /\ raw_instrs[1].imm[1] =
                    IF Len(script) >= 3 /\ script[3] \in IndexTokens
                    THEN [target |-> Index(script[2]), segment |-> Index(script[3])]
                    ELSE [target |-> IndexNum(0), segment |-> Index(script[2])])
        /\ (Len(script) >= 2 /\ script[2] \in IndexTokens =>
              status = "parsing" \/ raw_instrs # <<>>)
        /\ (toks # <<>> /\ Len(raw_instrs) = 1 =>
              Len(toks) = IF Len(script) >= 3 /\ script[3] \in IndexTokens THEN 3 ELSE 2)

C20_Witness ==
    /\ script = <<"table.init", "$a", "2">> /\ status = "ok"
    /\ raw_instrs[1].imm[1] = [target |-> IndexId("$a"), segment |-> IndexNum(2)]

(***************************************************************************)
(* C21: needs_data_count returns true for exactly memory.init, data.drop,  *)
(* array.new_data and array.init_data, whatever their payload, and false   *)
(* for every other instruction, array.new_elem, array.init_elem, elem.drop *)
(* and table.init among them.                                              *)
(***************************************************************************)
C21_NeedsDataCount ==
    \A k \in 1..Len(result) :
       /\ raw_instrs[k].op \in {"memory.init", "data.drop", "array.new_data",
                                "array.init_data"} => result[k] = TRUE
       /\ raw_instrs[k].op \in {"array.new_elem", "array.init_elem", "elem.drop",
                                "table.init"} => result[k] = FALSE
       /\ result[k] = TRUE =>
             raw_instrs[k].op \in {"memory.init", "data.drop", "array.new_data",
                                   "array.init_data"}

\* a body of array.init_data and table.init, both looked at
C21_Witness ==
    /\ Len(raw_instrs) = 2
    /\ Len(result) = 2
    /\ raw_instrs[1].op = "array.init_data"
    /\ raw_instrs[2].op = "table.init"
    /\ result = <<TRUE, FALSE>>

(***************************************************************************)
(* C22: after set_path(p) on a returned error the error carries p, also    *)
(* when a path was stored before; a Custom error then prints "failed to    *)
(* parse 'p': <msg>" and an Io error "failed to read from 'p'".  A Custom  *)
(* or Io error with no path prints its message only.  On a Wast error      *)
(* set_path is the inner error's.                                          *)
(***************************************************************************)
C22_SetPath ==
    /\ result.api = "set_path" =>
          /\ result.err.kind \in {"Custom", "Io"} => result.err.file = result.path
          /\ result.err.kind = "Custom" =>
                Display(result.err) =
                    <<"failed to parse '", result.path, "': ",
                      "input bytes aren't valid utf-8">>
          /\ result.err.kind = "Io" =>
                Display(result.err) = <<"failed to read from '", result.path, "'">>
          /\ result.err.kind = "Wast" =>
                \E m \in {result.err.msg}, f \in FilePaths \cup {NoPath} :
                   result.err = wast_Error_set_path(Wast(m, f), result.path)
    /\ (result.api \in BytesApis /\ result.path = NoPath /\ result.err.kind = "Custom") =>
          Display(result.err) = <<"input bytes aren't valid utf-8">>
    /\ \A msg \in IoErrors : Display(Io(msg, NoPath)) = <<msg>>

\* Parser::parse_bytes was given the path foo and bytes that are not UTF-8,
\* and set_path("bar") was called on its error
C22_Witness ==
    /\ result.api = "set_path"
    /\ result.path = "bar"
    /\ input = <<255>>
    /\ result.err = Custom("input bytes aren't valid utf-8", "bar")

(***************************************************************************)
(* C23: when instruction spans are tracked the list of spans is as long as *)
(* the list of instructions after every step of the parse, so the          *)
(* expression returned has one span per instruction; when they are not     *)
(* tracked the spans stay None.                                            *)
(***************************************************************************)
C23_OneSpanPerInstr ==
    /\ spans.some => Len(spans.v) = Len(raw_instrs)
    /\ ~spans.some => spans = None

\* the folded if of IfThenElseBody was parsed with spans tracked
C23_Witness ==
    /\ status = "ok"
    /\ script = IfThenElseBody
    /\ spans.some
    /\ Len(raw_instrs) = 6
    /\ Len(spans.v) = 6

\* the tokens of ks that are neither whitespace nor a comment
Significant(ks) ==
    SelectSeq(ks, LAMBDA k : k \notin {"Whitespace", "BlockComment", "LineComment"})

\* the text bs is UTF-8 and its first token that is neither whitespace nor a
\* comment is a left parenthesis
LooksLikeText(bs) ==
    /\ from_utf8(bs)
    /\ Significant(TokenKinds(bs, 1)) # <<>>
    /\ Significant(TokenKinds(bs, 1))[1] = "LParen"

(***************************************************************************)
(* C24: Detect::from_bytes returns WasmBinary exactly when the input       *)
(* starts with "\0asm"; otherwise WasmText exactly when the input is UTF-8 *)
(* and its first token after whitespace and comments is a left             *)
(* parenthesis; Unknown in every other case: bytes that are not UTF-8, an  *)
(* empty input or one of comments only, an error of the lexer, another     *)
(* first token.                                                            *)
(***************************************************************************)
C24_Detect ==
    result # NoResult =>
       /\ result.detect \in {"WasmBinary", "WasmText", "Unknown"}
       /\ result.detect = "WasmBinary" <=> starts_with(input, Magic)
       /\ result.detect = "WasmText" <=>
             (~starts_with(input, Magic) /\ LooksLikeText(input))
       /\ input \in {<<>>, <<255>>, <<40, 255>>, <<59, 59, 109>>, <<40, 59, 59>>,
                     <<59, 40>>, <<109, 40>>, <<41, 40>>, <<0>>} =>
             result.detect = "Unknown"
       /\ input \in {<<40>>, <<40, 59, 59, 41, 40>>, <<59, 59, 109, 10, 40>>,
                     <<32, 10, 40>> \o KwModule \o <<41>>, <<40, 41>>} =>
             result.detect = "WasmText"

\* ";;m\n(" was given: a line comment, a newline and a left parenthesis
C24_Witness ==
    /\ input = <<59, 59, 109, 10, 40>>
    /\ result # NoResult
    /\ result.detect = "WasmText"

(***************************************************************************)
(* C25: the parse of an expression ends on every finite input.  Each       *)
(* iteration of the loop consumes at least one token or returns an error;  *)
(* when no token is left and a level is still open the parser returns an   *)
(* error; it returns Ok only when the input is empty (at its end or at an  *)
(* unmatched ")") and no level is open.                                    *)
(***************************************************************************)
C25_Terminates ==
    /\ [][(status = "parsing" /\ status' = "parsing") => Len(toks') > Len(toks)]_vars
    /\ [][(status = "parsing" /\ ~free /\ At(1) = "EOF" /\ stack # <<>>) =>
             status' = "err"]_vars
    /\ [][(status = "parsing" /\ status' = "ok") =>
             (stack = <<>> /\ toks' = toks /\ (~free => is_empty(At(1))))]_vars
    /\ <>(status # "parsing")

\* the parse of (block nop ended with an error at the end of the input, the
\* level of the block being open
C25_Witness ==
    /\ script = UnclosedBody
    /\ status = "err"
    /\ Len(toks) = 3
    /\ stack # <<>>
    /\ errmsg = "expected an instruction"

\* the step consumes tokens, the first of them being t
ConsumesFirst(t) == Len(toks') > Len(toks) /\ toks'[Len(toks) + 1] = t

(***************************************************************************)
(* C26: no panic is reachable in parse or in parse_folded_instruction.  A  *)
(* ")" is consumed only when a level is open, and it pops exactly one      *)
(* level; a "(" that is consumed pushes exactly one level; parentheses are *)
(* consumed by paren only; parse_folded_instruction holds EndWith levels   *)
(* only, so neither stack.pop().unwrap() nor panic!("unknown level type")  *)
(* is reached.                                                             *)
(***************************************************************************)
C26_NoPanic ==
    /\ [][ConsumesFirst(")") => (stack # <<>> /\ stack' = Pop(stack))]_vars
    /\ [][ConsumesFirst("(") =>
             (Len(stack') = Len(stack) + 1
              /\ Pop(Pop(stack')) = Pop(stack))]_vars
    /\ [][\A k \in (Len(toks) + 2)..Len(toks') : toks'[k] \notin {"(", ")"}]_vars
    /\ [](errmsg \notin PanicMessages)
    /\ [](status = "folding" => \A l \in 1..Len(stack) : stack[l].kind = "EndWith")

\* parse_folded_instruction was given a ")" first and returned an error
C26_Witness ==
    /\ script = <<")">>
    /\ status = "err"
    /\ toks = <<>>
    /\ errmsg = "expected to continue a folded instruction"

\* the keywords of the folded forms that are emitted when they are opened
EarlyOpeners == {"block", "loop", "try_table"}

\* the positions of the "(" that open a folded block, loop or try_table
FoldedBlocks(t) == {i \in 1..(Len(t) - 1) : t[i] = "(" /\ t[i + 1] \in EarlyOpeners}

\* the indices of the instructions whose span is the token at position q
InstrsAt(q) == {m \in 1..Len(raw_instrs) : spans.v[m] = q}

\* The folded block opened at position i of the consumed tokens has one
\* opener, emitted before everything inside it, and once it is closed one End,
\* emitted after everything inside it.
FoldedBlockEnclosed(i) ==
    LET j == Match(toks, i)
        last == IF j = 0 THEN Len(toks) + 1 ELSE j
    IN
    /\ Cardinality(InstrsAt(i + 1)) = 1
    /\ \A m \in InstrsAt(i + 1) :
          /\ raw_instrs[m] = Instr(toks[i + 1], <<>>)
          /\ \A q \in 1..Len(raw_instrs) :
                (i + 1 < spans.v[q] /\ spans.v[q] < last) => m < q
    /\ j = 0 => (\A m \in InstrsAt(i + 1) : \A q \in (m + 1)..Len(raw_instrs) :
                    spans.v[q] > i + 1)
    /\ j # 0 =>
          /\ Cardinality(InstrsAt(j)) = 1
          /\ \A m \in InstrsAt(i + 1), n \in InstrsAt(j) :
                /\ raw_instrs[n] = End
                /\ m < n
                /\ \A q \in 1..Len(raw_instrs) :
                      (m < q /\ q < n) <=> (i + 1 < spans.v[q] /\ spans.v[q] < j)

(***************************************************************************)
(* C27: for a folded (block ...), (loop ...) or (try_table ...) the        *)
(* opening instruction is appended in the step that parses it, before      *)
(* anything nested in it, and an End with no label is appended when the    *)
(* matching ")" is consumed: the form gives exactly one opener and one End *)
(* around its flattened contents.                                          *)
(***************************************************************************)
C27_FoldedBlock ==
    /\ [][(ConsumesFirst("(") /\ toks'[Len(toks) + 2] \in EarlyOpeners) =>
             (/\ raw_instrs' = Append(raw_instrs, Instr(toks'[Len(toks) + 2], <<>>))
              /\ stack' = Append(stack, EndWith(End, 0)))]_vars
    /\ [][(ConsumesFirst(")") /\ Top = EndWith(End, 0)) =>
             raw_instrs' = Append(raw_instrs, End)]_vars
    /\ [](spans.some => \A i \in FoldedBlocks(toks) : FoldedBlockEnclosed(i))
    /\ [](status = "ok" /\ script = BlocksBody =>
             Ops(raw_instrs) = <<"block", "loop", "try_table", "nop", "end", "end", "end">>)

\* (block (loop (try_table nop))) was parsed with spans tracked
C27_Witness ==
    /\ status = "ok"
    /\ script = BlocksBody
    /\ spans.some
    /\ Len(raw_instrs) = 7

\* the instruction kept for the ")" at position j of the consumed tokens is
\* the one after the "(" that this ")" closes
ClosedBy(j) == CHOOSE i \in 1..j : toks[i] = "(" /\ Match(toks, i) = j

(***************************************************************************)
(* C28: parse_folded_instruction parses exactly one folded instruction.    *)
(* The input must start with "(", or the call fails with "expected to      *)
(* continue a folded instruction"; the call returns as soon as the ")"     *)
(* that matches the first "(" is consumed and leaves the tokens after it;  *)
(* every instruction is appended at its own ")", so children come before   *)
(* their parent; an instruction that is not in parentheses of its own      *)
(* inside the form is an error.                                            *)
(***************************************************************************)
C28_OneFoldedInstruction ==
    /\ (toks # <<>> => toks[1] = "(")
    /\ ((~free /\ (script = <<>> \/ script[1] # "(") /\ status # "folding") =>
           (/\ status = "err"
            /\ toks = <<>>
            /\ errmsg = "expected to continue a folded instruction"))
    /\ (status = "folding" /\ toks # <<>> => (Match(toks, 1) = 0 /\ stack # <<>>))
    /\ (status = "ok" => (toks # <<>> /\ Match(toks, 1) = Len(toks) /\ stack = <<>>))
    /\ (status = "ok" /\ script = FoldedThenFlatBody => toks = FoldedAddBody)
    /\ Len(raw_instrs) = Count(toks, {")"})
    /\ \A k \in 1..Len(toks) :
          toks[k] \in InstrKeywords \cup OtherKeywords => (k > 1 /\ toks[k - 1] = "(")
    /\ ((~free /\ status = "err" /\ toks # <<>> /\ At(1) \notin {"(", ")"}) =>
           errmsg = "expected to continue a folded instruction")
    /\ (spans.some =>
           \A m \in 1..Len(raw_instrs) :
              LET j == CHOOSE j \in 1..Len(toks) :
                          toks[j] = ")" /\ Count(SubSeq(toks, 1, j), {")"}) = m
              IN /\ spans.v[m] = ClosedBy(j) + 1
                 /\ raw_instrs[m].op = toks[ClosedBy(j) + 1])

\* (i32.add (i32.const 1) (i32.const 2)) nop was given: the call returned at
\* the last ")" with the operands before i32.add, and nop was left
C28_Witness ==
    /\ status = "ok"
    /\ script = FoldedThenFlatBody
    /\ Len(toks) = 11
    /\ Ops(raw_instrs) = <<"i32.const", "i32.const", "i32.add">>

(***************************************************************************)
(* C29: Parser::parse_bytes returns a borrowed value only when the input   *)
(* starts with "\0asm", and the value is then the whole input: same start, *)
(* same length; what it returns after parsing text is owned.  So neither   *)
(* assert_eq! of _parse_file fails, and parse_file returns the contents of *)
(* a binary file unchanged.                                                *)
(***************************************************************************)
C29_BorrowedIsInput ==
    /\ (result.api \in BytesApis /\ result.ok) =>
          /\ result.val.cow = "Borrowed" <=> starts_with(input, Magic)
          /\ result.val.cow = "Borrowed" =>
                (result.val.off = 0 /\ result.val.len = Len(input) /\ ~result.lexed)
          /\ result.lexed => result.val.cow = "Owned"
    /\ result.err.kind # "panic"
    /\ (result.api = "parse_file" /\ result.err.kind # "Io"
        /\ starts_with(input, Magic)) =>
          (result.ok /\ result.val = Owned(input))

\* parse_file read the header of a binary module followed by one more byte
C29_Witness ==
    /\ result.api = "parse_file"
    /\ input = Header \o <<99>>
    /\ result.ok
    /\ result.val = Owned(input)

\* the positions of the else keywords that open the else arm of a folded if
ElseArms(t) == {ElseOf(t, i) : i \in FoldedIfs(t)} \ {0}

\* the positions of the keywords that Instruction::parse was called on
ParsedAt(t) == {k \in 1..Len(t) : t[k] \in InstrKeywords} \ ElseArms(t)

\* the instruction parsed at position k of the consumed tokens
ParsedInstr(k) ==
    Instr(toks[k], IF toks[k] \in ImmKeywords THEN <<IntValue(toks[k + 1])>> ELSE <<>>)

\* the levels of the stack that hold an instruction to append later
HeldLevels ==
    {l \in 1..Len(stack) :
        \/ stack[l].kind = "EndWith" /\ stack[l].span # 0
        \/ stack[l].kind = "If" /\ stack[l].st = "Clause"}

(***************************************************************************)
(* C30: the parse neither drops nor duplicates an instruction.  At every   *)
(* step each instruction parsed so far is in the flat list or held in      *)
(* exactly one level of the stack, never both; the other entries of the    *)
(* list are one End for each folded block, loop, try_table or if closed so *)
(* far and one Else for each (else arm; on success nothing is held, so the *)
(* length of instrs is the number of parsed instructions plus the number   *)
(* of folded block-like forms plus the number of folded else arms.         *)
(***************************************************************************)
C30_NothingLost ==
    /\ Len(raw_instrs) + Cardinality(HeldLevels)
          = Cardinality(ParsedAt(toks)) + Cardinality(FoldedBlockCloses(toks))
               + Cardinality(ElseArms(toks))
    /\ status = "ok" =>
          /\ HeldLevels = {}
          /\ Len(raw_instrs)
                = Cardinality(ParsedAt(toks))
                     + Cardinality({i \in 1..(Len(toks) - 1) :
                                       toks[i] = "("
                                       /\ toks[i + 1] \in {"block", "loop", "try_table", "if"}})
                     + Cardinality(ElseArms(toks))
    /\ spans.some =>
          /\ \A k \in ParsedAt(toks) :
                Cardinality({m \in 1..Len(raw_instrs) : spans.v[m] = k})
                   + Cardinality({l \in HeldLevels : stack[l].span = k}) = 1
          /\ \A l \in HeldLevels :
                stack[l].span \in ParsedAt(toks) /\ stack[l].instr = ParsedInstr(stack[l].span)
          /\ \A m \in 1..Len(raw_instrs) :
                /\ \A n \in 1..Len(raw_instrs) : spans.v[m] = spans.v[n] => m = n
                /\ \/ spans.v[m] \in ParsedAt(toks) /\ raw_instrs[m] = ParsedInstr(spans.v[m])
                   \/ spans.v[m] \in FoldedBlockCloses(toks) /\ raw_instrs[m] = End
                   \/ spans.v[m] \in ElseArms(toks) /\ raw_instrs[m] = Else

\* ( if ( then else ) ( else ) ) was parsed: an if and an else were parsed,
\* the else arm gave one more Else and the form its End
C30_Witness ==
    /\ status = "ok"
    /\ script = ElseInThenBody
    /\ spans.some
    /\ Ops(raw_instrs) = <<"if", "else", "else", "end">>
    /\ Cardinality(ParsedAt(toks)) = 2
    /\ Cardinality(ElseArms(toks)) = 1

====
